---- MODULE Spec2Model ----
(***************************************************************************)
(* MultiBillForge: the Express API of server/routes.ts over the JSON-file  *)
(* store of server/storage.ts and the JWT service of server/services/      *)
(* auth.ts.  One action per HTTP route; an action runs the route's whole   *)
(* middleware chain (authMiddleware, requirePermission,                    *)
(* requireCompanyScope) and its handler, storage calls included.           *)
(*                                                                         *)
(* Objects are functions from field names to values, so that a request     *)
(* body with some fields missing is a record with a smaller DOMAIN and the *)
(* JavaScript spread {...a, ...b} is Spread(a, b).  undefined/null is the  *)
(* empty function Null.  Fields that no route, middleware or storage call  *)
(* reads (name, createdAt, updatedAt, price, ...) are left out of the      *)
(* records.                                                                *)
(***************************************************************************)
EXTENDS Integers, Sequences, FiniteSets, TLC

VARIABLES
  now,           \* wall clock, in hours
  companies,     \* companies.json
  users,         \* users.json
  roles,         \* roles.json
  permissions,   \* permissions.json
  products,      \* products.json
  customers,     \* customers.json
  invoices,      \* invoices.json
  invoiceItems,  \* invoice_items.json
  nextId,        \* per collection, how many ids randomUUID() has handed out
  authToken,     \* per client, localStorage 'auth_token'
  req,           \* the last request received
  res,           \* the last response sent
  inflight       \* per client, its request's storage call suspended at an await

store == <<companies, users, roles, permissions, products, customers, invoices, invoiceItems>>
vars == <<now, companies, users, roles, permissions, products, customers, invoices,
          invoiceItems, nextId, authToken, req, res, inflight>>

----------------------------------------------------------------------------
(* Bounds *)

\* Products that may be created where requests overlap or the file system fails.
MaxCalls == 2

\* Ids randomUUID() may hand out per collection.
MaxIds == 1
\* Hours the clock advances in one step, and the last hour modelled.
ClockStep == 12
MaxClock == 36
\* Invoices and invoice items that may be created.
MaxInvoices == 2
MaxItems == 2
\* Users in a users.json drawn for the login specification.
MaxStored == 2
\* Permission rows of the role under test in the permission-check specification.
MaxRows == 2

----------------------------------------------------------------------------
(* JavaScript values *)

Null == <<>>

Has(o, k) == k \in DOMAIN o

\* o.k || "" : undefined and the empty string are both falsy.
Field(o, k) == IF Has(o, k) THEN o[k] ELSE ""

Truthy(o, k) == Has(o, k) /\ o[k] # ""

\* {...a, ...b}
Spread(a, b) == [k \in DOMAIN a \cup DOMAIN b |-> IF k \in DOMAIN b THEN b[k] ELSE a[k]]

\* zod's z.object(...).parse strips the keys the schema does not name.
Strip(o, keys) == [k \in DOMAIN o \cap keys |-> o[k]]

Min(S) == CHOOSE x \in S : \A y \in S : x <= y

\* Array.prototype.findIndex over the indices that satisfy the callback,
\* 1-based, 0 for -1.
FindIndex(hits) == IF hits = {} THEN 0 ELSE Min(hits)

\* Array.prototype.find over the indices that satisfy the callback, Null for
\* undefined.
Find(arr, hits) == IF hits = {} THEN Null ELSE arr[Min(hits)]

\* The indices of the elements with that id.
WithId(arr, id) == {i \in DOMAIN arr : arr[i].id = id}

----------------------------------------------------------------------------
(* Seeded data: the demo accounts and the four roles of the README *)

UUIDs ==
  [ companies |-> <<"c1", "c2", "c3", "c4", "c5">>,
    users     |-> <<"u1", "u2", "u3", "u4", "u5", "u6", "u7", "u8">>,
    products  |-> <<"p1", "p2", "p3", "p4", "p5">>,
    customers |-> <<"k1", "k2", "k3", "k4", "k5">>,
    invoices  |-> <<"i1", "i2", "i3", "i4", "i5">>,
    items     |-> <<"x1", "x2", "x3", "x4", "x5">> ]

Modules == {"companies", "users", "products", "customers", "invoices"}
Actions == {"canCreate", "canRead", "canUpdate", "canDelete"}

SeedRoles ==
  << [id |-> "r1", name |-> "Super Admin"],
     [id |-> "r2", name |-> "Company Admin"],
     [id |-> "r3", name |-> "Manager"],
     [id |-> "r4", name |-> "User"] >>

Row(roleId, module, c, r, u, d) ==
  [roleId |-> roleId, module |-> module,
   canCreate |-> c, canRead |-> r, canUpdate |-> u, canDelete |-> d]

\* Super Admin: everything.  Company Admin: everything but companies.
\* Manager: no delete, users read-only.  User: read-only.
SeedPermissions ==
  << Row("r1", "companies", TRUE, TRUE, TRUE, TRUE),
     Row("r1", "users",     TRUE, TRUE, TRUE, TRUE),
     Row("r1", "products",  TRUE, TRUE, TRUE, TRUE),
     Row("r1", "customers", TRUE, TRUE, TRUE, TRUE),
     Row("r1", "invoices",  TRUE, TRUE, TRUE, TRUE),
     Row("r2", "users",     TRUE, TRUE, TRUE, TRUE),
     Row("r2", "products",  TRUE, TRUE, TRUE, TRUE),
     Row("r2", "customers", TRUE, TRUE, TRUE, TRUE),
     Row("r2", "invoices",  TRUE, TRUE, TRUE, TRUE),
     Row("r3", "users",     FALSE, TRUE, FALSE, FALSE),
     Row("r3", "products",  TRUE, TRUE, TRUE, FALSE),
     Row("r3", "customers", TRUE, TRUE, TRUE, FALSE),
     Row("r3", "invoices",  TRUE, TRUE, TRUE, FALSE),
     Row("r4", "products",  FALSE, TRUE, FALSE, FALSE),
     Row("r4", "customers", FALSE, TRUE, FALSE, FALSE),
     Row("r4", "invoices",  FALSE, TRUE, FALSE, FALSE) >>

SeedCompanies ==
  << [id |-> "c1", isActive |-> TRUE],
     [id |-> "c2", isActive |-> TRUE] >>

----------------------------------------------------------------------------
(* AuthService *)

\* bcrypt.hash(password, 12): the salt is left out, compare does not depend on it.
HashPassword(password) ==
  CASE password = "password" -> "$2a$12$/password"
    [] password = "hunter2"  -> "$2a$12$/hunter2"
    [] OTHER                 -> "$2a$12$/"

\* bcrypt.compare(password, hash)
ComparePassword(password, hash) == hash = HashPassword(password)

SeedUsers ==
  << [id |-> "u1", companyId |-> "c1", roleId |-> "r1", email |-> "super@admin.com",
      password |-> HashPassword("password"), isActive |-> TRUE],
     [id |-> "u2", companyId |-> "c1", roleId |-> "r2", email |-> "admin@acme.com",
      password |-> HashPassword("password"), isActive |-> TRUE],
     [id |-> "u3", companyId |-> "c1", roleId |-> "r3", email |-> "manager@acme.com",
      password |-> HashPassword("password"), isActive |-> TRUE],
     [id |-> "u4", companyId |-> "c2", roleId |-> "r2", email |-> "admin@globex.com",
      password |-> HashPassword("password"), isActive |-> TRUE] >>

JWT_SECRET == "fallback-secret-key"
JWT_EXPIRES_IN == 24

\* jwt.sign(payload, JWT_SECRET, {expiresIn: '24h'})
GenerateToken(user) ==
  [userId |-> user.id, companyId |-> user.companyId, roleId |-> user.roleId,
   email |-> user.email, exp |-> now + JWT_EXPIRES_IN, sig |-> JWT_SECRET]

\* jwt.verify with ignoreExpiration: the payload of any token the server signed.
VerifyTokenIgnoringExpiry(token) ==
  IF token.sig = JWT_SECRET THEN token ELSE Null

\* jwt.verify(token, JWT_SECRET): the payload, or null on a bad signature or
\* an expired token.
VerifyToken(token) ==
  IF token.sig = JWT_SECRET /\ now < token.exp THEN token ELSE Null

\* The Authorization header is [scheme, token]; Null when the header is missing.
\* 'Bearer ' followed by nothing yields the empty string, which is falsy.
ExtractTokenFromHeader(authHeader) ==
  IF authHeader = Null \/ authHeader.scheme # "Bearer" THEN Null ELSE authHeader.token

----------------------------------------------------------------------------
(* JSONStorage reads *)

GetUser(id) == Find(users, WithId(users, id))

GetUserByEmail(email) == Find(users, {i \in DOMAIN users : users[i].email = email})

GetPermissions(roleId) == LET P(p) == p.roleId = roleId IN SelectSeq(permissions, P)

GetUserWithRole(id) ==
  LET user == GetUser(id) IN
  IF user = Null THEN Null
  ELSE LET role == Find(roles, WithId(roles, user.roleId))
           company == Find(companies, WithId(companies, user.companyId))
       IN IF role = Null \/ company = Null THEN Null
          ELSE Spread(user, [role |-> role, company |-> company,
                             permissions |-> GetPermissions(user.roleId)])

GetUserByEmailWithRole(email) ==
  LET user == GetUserByEmail(email) IN
  IF user = Null THEN Null ELSE GetUserWithRole(user.id)

GetUsers(companyId) ==
  LET P(u) == u.companyId = companyId
  IN IF companyId = "" THEN users ELSE SelectSeq(users, P)

----------------------------------------------------------------------------
(* Middleware *)

Reject(status, message) == [ok |-> FALSE, status |-> status, message |-> message, user |-> Null]
Pass(user) == [ok |-> TRUE, status |-> 200, message |-> "", user |-> user]

\* authMiddleware trusting the token's claims without loading the user.
AuthMiddlewareClaimsOnly(authorization) ==
  LET token == ExtractTokenFromHeader(authorization) IN
  IF token = Null THEN Reject(401, "Authentication required")
  ELSE LET payload == VerifyToken(token) IN
       IF payload = Null THEN Reject(401, "Invalid token")
       ELSE Pass([id |-> payload.userId, companyId |-> payload.companyId,
                  roleId |-> payload.roleId, email |-> payload.email,
                  role |-> Find(roles, WithId(roles, payload.roleId)),
                  company |-> Find(companies, WithId(companies, payload.companyId)),
                  permissions |-> GetPermissions(payload.roleId)])

\* authMiddleware loading the user but taking the role from the token's claims.
AuthMiddlewareRoleFromClaims(authorization) ==
  LET token == ExtractTokenFromHeader(authorization) IN
  IF token = Null THEN Reject(401, "Authentication required")
  ELSE LET payload == VerifyToken(token) IN
       IF payload = Null THEN Reject(401, "Invalid token")
       ELSE LET user == GetUserWithRole(payload.userId)
            IN IF user = Null THEN Reject(401, "User not found")
               ELSE Pass(Spread(user, [roleId |-> payload.roleId,
                                       role |-> Find(roles, WithId(roles, payload.roleId)),
                                       permissions |-> GetPermissions(payload.roleId)]))

\* authMiddleware refusing a user whose isActive is false.
AuthMiddlewareActiveOnly(authorization) ==
  LET token == ExtractTokenFromHeader(authorization) IN
  IF token = Null THEN Reject(401, "Authentication required")
  ELSE LET payload == VerifyToken(token) IN
       IF payload = Null THEN Reject(401, "Invalid token")
       ELSE LET user == GetUserWithRole(payload.userId) IN
            IF user = Null THEN Reject(401, "User not found")
            ELSE IF ~user.isActive THEN Reject(401, "Account is inactive")
            ELSE Pass(user)

AuthMiddleware(authorization) ==
  LET token == ExtractTokenFromHeader(authorization) IN
  IF token = Null THEN Reject(401, "Authentication required")
  ELSE LET payload == VerifyToken(token) IN
       IF payload = Null THEN Reject(401, "Invalid token")
       ELSE LET user == GetUserWithRole(payload.userId) IN
            IF user = Null THEN Reject(401, "User not found") ELSE Pass(user)

\* requirePermission letting a role with no row for the module through.
RequirePermissionDefaultAllow(user, module, action) ==
  LET permission == Find(user.permissions,
                         {i \in DOMAIN user.permissions : user.permissions[i].module = module})
  IN permission = Null \/ permission[action]

\* req.user.permissions.find(p => p.module === module); !permission || !permission[action]
RequirePermission(user, module, action) ==
  LET permission == Find(user.permissions,
                         {i \in DOMAIN user.permissions : user.permissions[i].module = module})
  IN ~(permission = Null \/ ~permission[action])

\* req.params.companyId || req.body.companyId || req.query.companyId
RequestedCompanyId(params, body, query) ==
  IF Truthy(params, "companyId") THEN params.companyId
  ELSE IF Truthy(body, "companyId") THEN body.companyId
  ELSE Field(query, "companyId")

\* requireCompanyScope without the Super Admin exemption.
RequireCompanyScopeNoBypass(user, params, body, query) ==
  LET companyId == RequestedCompanyId(params, body, query)
  IN ~(companyId # "" /\ companyId # user.companyId)

\* requireCompanyScope reading req.query.companyId || req.body.companyId || req.params.companyId
RequireCompanyScopeQueryFirst(user, params, body, query) ==
  IF user.role.name = "Super Admin" THEN TRUE
  ELSE LET companyId == RequestedCompanyId(query, body, params)
       IN ~(companyId # "" /\ companyId # user.companyId)

RequireCompanyScope(user, params, body, query) ==
  IF user.role.name = "Super Admin" THEN TRUE
  ELSE LET companyId == RequestedCompanyId(params, body, query)
       IN ~(companyId # "" /\ companyId # user.companyId)

\* The chain in front of a handler: authMiddleware, then requirePermission
\* (module "" when the route has none), then requireCompanyScope when scoped.
\* req.user stays set once authMiddleware has passed.
Chain(r, module, action, scoped) ==
  LET auth == AuthMiddleware(r.authorization) IN
  IF ~auth.ok THEN auth
  ELSE IF module # "" /\ ~RequirePermission(auth.user, module, action)
       THEN [Reject(403, "Insufficient permissions") EXCEPT !.user = auth.user]
  ELSE IF scoped /\ ~RequireCompanyScope(auth.user, r.params, r.body, r.query)
       THEN [Reject(403, "Access denied to company data") EXCEPT !.user = auth.user]
  ELSE auth

----------------------------------------------------------------------------
(* Schemas (shared/schema.ts) *)

\* z.string().email()
IsEmail(e) == e \notin {"", "not-an-email"}

LoginKeys == {"email", "password"}
InsertCompanyKeys == {"isActive"}
InsertUserKeys == {"companyId", "roleId", "email", "password", "isActive"}
InsertProductKeys == {"companyId", "name"}
InsertCustomerKeys == {"companyId", "name", "isActive"}
InsertInvoiceKeys == {"companyId", "customerId", "subtotal", "tax", "total", "status"}
InsertInvoiceItemKeys == {"invoiceId", "productId", "quantity", "unitPrice", "total"}
InvoiceStatuses == {"pending", "paid", "overdue", "cancelled"}

\* loginSchema.parse: email a well-formed address, password of length >= 1.
LoginSchemaOk(body) ==
  /\ LoginKeys \subseteq DOMAIN body
  /\ IsEmail(body.email)
  /\ body.password # ""

\* schema.parse(body) succeeds: every key present, and well-formed.
WellFormed(body) ==
  /\ Has(body, "email") => IsEmail(body.email)
  /\ Has(body, "status") => body.status \in InvoiceStatuses

ParseOk(body, keys) == keys \subseteq DOMAIN body /\ WellFormed(Strip(body, keys))

\* schema.partial().parse(body) succeeds: the keys present are well-formed.
PartialOk(body, keys) == WellFormed(Strip(body, keys))

----------------------------------------------------------------------------
(* JSONStorage writes.  Each returns the collection as writeFile leaves it. *)

\* randomUUID(): an id never handed out before in the collection.
RandomUUID(coll) == UUIDs[coll][nextId[coll]]

\* Ids are left to hand out (bounds the collections).
IdBudget ==
  [companies |-> MaxIds, users |-> MaxIds, products |-> MaxIds, customers |-> MaxIds,
   invoices |-> MaxInvoices, items |-> MaxItems]

CanCreate(coll, seeded, n) == nextId[coll] + n - 1 <= seeded + IdBudget[coll]

Bump(coll, n) == nextId' = [nextId EXCEPT ![coll] = @ + n]

\* createX: [...file, {...data, id: randomUUID()}]
Created(arr, data, id) == Append(arr, Spread(data, [id |-> id]))

\* updateX: the element with that id replaced by {...element, ...data}
Updated(arr, id, data) ==
  LET index == FindIndex(WithId(arr, id))
  IN IF index = 0 THEN arr ELSE [arr EXCEPT ![index] = Spread(arr[index], data)]

\* deleteX: file.filter(r => r.id !== id)
Deleted(arr, id) == LET P(r) == r.id # id IN SelectSeq(arr, P)

Exists(arr, id) == FindIndex(WithId(arr, id)) # 0

----------------------------------------------------------------------------
(* Requests and responses *)

Request(route, authorization, params, body, query) ==
  [route |-> route, authorization |-> authorization, params |-> params,
   body |-> body, query |-> query]

\* req.user as authMiddleware leaves it (Null when the chain stopped before it).
Received(r, gate) == req' = Spread(r, [user |-> gate.user])

Respond(status, message, body) ==
  res' = [status |-> status, message |-> message, body |-> body]

Bearer(token) == [scheme |-> "Bearer", token |-> token]

\* A token signed with another key, claiming to be the seeded Super Admin.
ForgedToken ==
  [userId |-> "u1", companyId |-> "c1", roleId |-> "r1", email |-> "super@admin.com",
   exp |-> MaxClock + JWT_EXPIRES_IN, sig |-> "attacker-key"]

\* What a client can put in the Authorization header.
Authorizations(c) ==
  {Null, [scheme |-> "Basic", token |-> Null], Bearer(Null), Bearer(ForgedToken)}
    \cup (IF authToken[c] = Null THEN {} ELSE {Bearer(authToken[c])})

\* Two browsers, so that one user's token is in use while another user acts.
Clients == {"browser1", "browser2"}

\* No storage call of the client's is in flight.  A call in flight holds its
\* local arrays, the files it has still to write, and the response its route
\* sends once it returns; status is that of the client's last response.
Idle ==
  [pc |-> "idle", route |-> "", invoices |-> <<>>, invoiceItems |-> <<>>, products |-> <<>>,
   pending |-> {}, args |-> <<>>, answer |-> <<>>, status |-> 0]

\* The header the client's getAuthHeaders() builds from the stored token.
GetAuthHeaders(c) == IF authToken[c] = Null THEN {} ELSE {Bearer(authToken[c])}

----------------------------------------------------------------------------
(* Auth routes *)

\* user: {id, email, name, role, company, permissions}
UserView(user) == Strip(user, {"id", "email", "role", "company", "permissions"})

\* The login answering 404 for an unknown email.
LoginResponseUserNotFound(body) ==
  LET user == GetUserByEmailWithRole(body.email) IN
  IF ~LoginSchemaOk(body) THEN [status |-> 400, message |-> "Invalid request data", body |-> Null]
  ELSE IF user = Null
  THEN [status |-> 404, message |-> "User not found", body |-> Null]
  ELSE IF ~ComparePassword(body.password, user.password)
  THEN [status |-> 401, message |-> "Invalid credentials", body |-> Null]
  ELSE IF ~user.isActive
  THEN [status |-> 401, message |-> "Account is inactive", body |-> Null]
  ELSE [status |-> 200, message |-> "",
        body |-> [token |-> GenerateToken(user), user |-> UserView(user)]]

\* The login checking isActive before the password.
LoginResponseInactiveFirst(body) ==
  LET user == GetUserByEmailWithRole(body.email) IN
  IF ~LoginSchemaOk(body) THEN [status |-> 400, message |-> "Invalid request data", body |-> Null]
  ELSE IF user = Null
  THEN [status |-> 401, message |-> "Invalid credentials", body |-> Null]
  ELSE IF ~user.isActive
  THEN [status |-> 401, message |-> "Account is inactive", body |-> Null]
  ELSE IF ~ComparePassword(body.password, user.password)
  THEN [status |-> 401, message |-> "Invalid credentials", body |-> Null]
  ELSE [status |-> 200, message |-> "",
        body |-> [token |-> GenerateToken(user), user |-> UserView(user)]]

\* POST /api/auth/login: the response.
LoginResponse(body) ==
  LET user == GetUserByEmailWithRole(body.email) IN
  IF ~LoginSchemaOk(body) THEN [status |-> 400, message |-> "Invalid request data", body |-> Null]
  ELSE IF user = Null
  THEN [status |-> 401, message |-> "Invalid credentials", body |-> Null]
  ELSE IF ~ComparePassword(body.password, user.password)
  THEN [status |-> 401, message |-> "Invalid credentials", body |-> Null]
  ELSE IF ~user.isActive
  THEN [status |-> 401, message |-> "Account is inactive", body |-> Null]
  ELSE [status |-> 200, message |-> "",
        body |-> [token |-> GenerateToken(user), user |-> UserView(user)]]

\* POST /api/auth/login, and the client's loginMutation.onSuccess, which stores
\* the token of a successful response.
Login(c, body) ==
  LET r == Request("POST /api/auth/login", Null, Null, body, Null)
      out == LoginResponse(body)
  IN /\ req' = Spread(r, [user |-> Null])
     /\ res' = out
     /\ authToken' = IF out.status = 200 THEN [authToken EXCEPT ![c] = out.body.token]
                     ELSE authToken
     /\ UNCHANGED <<inflight, now, store, nextId>>

\* GET /api/auth/me
Me(c, authorization) ==
  LET r == Request("GET /api/auth/me", authorization, Null, Null, Null)
      gate == Chain(r, "", "", FALSE)
  IN /\ Received(r, gate)
     /\ IF ~gate.ok THEN Respond(gate.status, gate.message, Null)
        ELSE Respond(200, "", [user |-> UserView(gate.user)])
     /\ UNCHANGED <<inflight, now, store, nextId, authToken>>

\* Time passes.
Tick ==
  /\ now + ClockStep <= MaxClock
  /\ now' = now + ClockStep
  /\ UNCHANGED <<store, nextId, authToken, req, res, inflight>>

----------------------------------------------------------------------------
(* User routes *)

\* GET /api/users
GetUsersRoute(c, authorization, query) ==
  LET r == Request("GET /api/users", authorization, Null, Null, query)
      gate == Chain(r, "users", "canRead", TRUE)
      companyId == IF gate.user.role.name = "Super Admin" THEN "" ELSE gate.user.companyId
  IN /\ Received(r, gate)
     /\ IF ~gate.ok THEN Respond(gate.status, gate.message, Null)
        ELSE Respond(200, "", GetUsers(companyId))
     /\ UNCHANGED <<inflight, now, store, nextId, authToken>>

\* POST /api/users
PostUser(c, authorization, body, query) ==
  LET r == Request("POST /api/users", authorization, Null, body, query)
      gate == Chain(r, "users", "canCreate", TRUE)
      userData == Strip(body, InsertUserKeys)
      hashed == Spread(userData, [password |-> HashPassword(userData.password)])
      scoped == IF gate.user.role.name # "Super Admin"
                THEN Spread(hashed, [companyId |-> gate.user.companyId])
                ELSE hashed
      id == RandomUUID("users")
  IN /\ CanCreate("users", Len(SeedUsers), 1)
     /\ Received(r, gate)
     /\ IF ~gate.ok
        THEN Respond(gate.status, gate.message, Null) /\ UNCHANGED <<users, nextId>>
        ELSE IF ~ParseOk(body, InsertUserKeys)
        THEN Respond(400, "Invalid user data", Null) /\ UNCHANGED <<users, nextId>>
        ELSE /\ users' = Created(users, scoped, id)
             /\ Bump("users", 1)
             /\ Respond(201, "", Spread(scoped, [id |-> id]))
     /\ UNCHANGED <<inflight, now, companies, roles, permissions, products, customers, invoices,
                    invoiceItems, authToken>>

\* PUT /api/users/:id
PutUser(c, authorization, id, body, query) ==
  LET r == Request("PUT /api/users/:id", authorization, [id |-> id], body, query)
      gate == Chain(r, "users", "canUpdate", TRUE)
      userData == Strip(body, InsertUserKeys)
      hashed == IF Truthy(userData, "password")
                THEN Spread(userData, [password |-> HashPassword(userData.password)])
                ELSE userData
  IN /\ Received(r, gate)
     /\ IF ~gate.ok
        THEN Respond(gate.status, gate.message, Null) /\ UNCHANGED users
        ELSE IF ~PartialOk(body, InsertUserKeys)
        THEN Respond(400, "Invalid user data", Null) /\ UNCHANGED users
        ELSE IF ~Exists(users, id)
        THEN Respond(404, "User not found", Null) /\ UNCHANGED users
        ELSE /\ users' = Updated(users, id, hashed)
             /\ Respond(200, "", Spread(GetUser(id), hashed))
     /\ UNCHANGED <<inflight, now, companies, roles, permissions, products, customers, invoices,
                    invoiceItems, nextId, authToken>>

\* DELETE /api/users/:id
DeleteUserRoute(c, authorization, id, query) ==
  LET r == Request("DELETE /api/users/:id", authorization, [id |-> id], Null, query)
      gate == Chain(r, "users", "canDelete", TRUE)
  IN /\ Received(r, gate)
     /\ IF ~gate.ok
        THEN Respond(gate.status, gate.message, Null) /\ UNCHANGED users
        ELSE IF ~Exists(users, id)
        THEN Respond(404, "User not found", Null) /\ UNCHANGED users
        ELSE users' = Deleted(users, id) /\ Respond(204, "", Null)
     /\ UNCHANGED <<inflight, now, companies, roles, permissions, products, customers, invoices,
                    invoiceItems, nextId, authToken>>

----------------------------------------------------------------------------
(* Company routes *)

\* GET /api/companies
GetCompaniesRoute(c, authorization) ==
  LET r == Request("GET /api/companies", authorization, Null, Null, Null)
      gate == Chain(r, "companies", "canRead", FALSE)
  IN /\ Received(r, gate)
     /\ IF ~gate.ok THEN Respond(gate.status, gate.message, Null)
        ELSE Respond(200, "", companies)
     /\ UNCHANGED <<inflight, now, store, nextId, authToken>>

\* POST /api/companies
PostCompany(c, authorization, body) ==
  LET r == Request("POST /api/companies", authorization, Null, body, Null)
      gate == Chain(r, "companies", "canCreate", FALSE)
      companyData == Strip(body, InsertCompanyKeys)
      id == RandomUUID("companies")
  IN /\ CanCreate("companies", Len(SeedCompanies), 1)
     /\ Received(r, gate)
     /\ IF ~gate.ok
        THEN Respond(gate.status, gate.message, Null) /\ UNCHANGED <<companies, nextId>>
        ELSE IF ~ParseOk(body, InsertCompanyKeys)
        THEN Respond(400, "Invalid company data", Null) /\ UNCHANGED <<companies, nextId>>
        ELSE /\ companies' = Created(companies, companyData, id)
             /\ Bump("companies", 1)
             /\ Respond(201, "", Spread(companyData, [id |-> id]))
     /\ UNCHANGED <<inflight, now, users, roles, permissions, products, customers, invoices,
                    invoiceItems, authToken>>

\* PUT /api/companies/:id without requirePermission in front of the handler.
PutCompanyUngated(c, authorization, id, body) ==
  LET r == Request("PUT /api/companies/:id", authorization, [id |-> id], body, Null)
      gate == Chain(r, "", "", FALSE)
      companyData == Strip(body, InsertCompanyKeys)
  IN /\ Received(r, gate)
     /\ IF ~gate.ok
        THEN Respond(gate.status, gate.message, Null) /\ UNCHANGED companies
        ELSE IF ~Exists(companies, id)
        THEN Respond(404, "Company not found", Null) /\ UNCHANGED companies
        ELSE /\ companies' = Updated(companies, id, companyData)
             /\ Respond(200, "", Spread(Find(companies, WithId(companies, id)), companyData))
     /\ UNCHANGED <<inflight, now, users, roles, permissions, products, customers, invoices,
                    invoiceItems, nextId, authToken>>

\* PUT /api/companies/:id
PutCompany(c, authorization, id, body) ==
  LET r == Request("PUT /api/companies/:id", authorization, [id |-> id], body, Null)
      gate == Chain(r, "companies", "canUpdate", FALSE)
      companyData == Strip(body, InsertCompanyKeys)
  IN /\ Received(r, gate)
     /\ IF ~gate.ok
        THEN Respond(gate.status, gate.message, Null) /\ UNCHANGED companies
        ELSE IF ~PartialOk(body, InsertCompanyKeys)
        THEN Respond(400, "Invalid company data", Null) /\ UNCHANGED companies
        ELSE IF ~Exists(companies, id)
        THEN Respond(404, "Company not found", Null) /\ UNCHANGED companies
        ELSE /\ companies' = Updated(companies, id, companyData)
             /\ Respond(200, "", Spread(Find(companies, WithId(companies, id)), companyData))
     /\ UNCHANGED <<inflight, now, users, roles, permissions, products, customers, invoices,
                    invoiceItems, nextId, authToken>>

\* DELETE /api/companies/:id
DeleteCompanyRoute(c, authorization, id) ==
  LET r == Request("DELETE /api/companies/:id", authorization, [id |-> id], Null, Null)
      gate == Chain(r, "companies", "canDelete", FALSE)
  IN /\ Received(r, gate)
     /\ IF ~gate.ok
        THEN Respond(gate.status, gate.message, Null) /\ UNCHANGED companies
        ELSE IF ~Exists(companies, id)
        THEN Respond(404, "Company not found", Null) /\ UNCHANGED companies
        ELSE companies' = Deleted(companies, id) /\ Respond(204, "", Null)
     /\ UNCHANGED <<inflight, now, users, roles, permissions, products, customers, invoices,
                    invoiceItems, nextId, authToken>>

----------------------------------------------------------------------------
(* Product routes *)

\* storage.getProducts / getCustomers / getInvoices: file.filter(r => r.companyId === companyId)
OfCompany(arr, companyId) == LET P(r) == r.companyId = companyId IN SelectSeq(arr, P)

\* GET /api/products
GetProductsRoute(c, authorization) ==
  LET r == Request("GET /api/products", authorization, Null, Null, Null)
      gate == Chain(r, "products", "canRead", FALSE)
  IN /\ Received(r, gate)
     /\ IF ~gate.ok THEN Respond(gate.status, gate.message, Null)
        ELSE Respond(200, "", OfCompany(products, gate.user.companyId))
     /\ UNCHANGED <<inflight, now, store, nextId, authToken>>

\* POST /api/products
PostProduct(c, authorization, body) ==
  LET r == Request("POST /api/products", authorization, Null, body, Null)
      gate == Chain(r, "products", "canCreate", FALSE)
      productData == Spread(Strip(body, InsertProductKeys), [companyId |-> gate.user.companyId])
      id == RandomUUID("products")
  IN /\ CanCreate("products", 0, 1)
     /\ Received(r, gate)
     /\ IF ~gate.ok
        THEN Respond(gate.status, gate.message, Null) /\ UNCHANGED <<products, nextId>>
        ELSE IF ~ParseOk(body, InsertProductKeys)
        THEN Respond(400, "Invalid product data", Null) /\ UNCHANGED <<products, nextId>>
        ELSE /\ products' = Created(products, productData, id)
             /\ Bump("products", 1)
             /\ Respond(201, "", Spread(productData, [id |-> id]))
     /\ UNCHANGED <<inflight, now, companies, users, roles, permissions, customers, invoices,
                    invoiceItems, authToken>>

\* PUT /api/products/:id
PutProduct(c, authorization, id, body) ==
  LET r == Request("PUT /api/products/:id", authorization, [id |-> id], body, Null)
      gate == Chain(r, "products", "canUpdate", FALSE)
      productData == Strip(body, InsertProductKeys)
  IN /\ Received(r, gate)
     /\ IF ~gate.ok
        THEN Respond(gate.status, gate.message, Null) /\ UNCHANGED products
        ELSE IF ~PartialOk(body, InsertProductKeys)
        THEN Respond(400, "Invalid product data", Null) /\ UNCHANGED products
        ELSE IF ~Exists(products, id)
        THEN Respond(404, "Product not found", Null) /\ UNCHANGED products
        ELSE /\ products' = Updated(products, id, productData)
             /\ Respond(200, "", Spread(Find(products, WithId(products, id)), productData))
     /\ UNCHANGED <<inflight, now, companies, users, roles, permissions, customers, invoices,
                    invoiceItems, nextId, authToken>>

\* DELETE /api/products/:id
DeleteProductRoute(c, authorization, id) ==
  LET r == Request("DELETE /api/products/:id", authorization, [id |-> id], Null, Null)
      gate == Chain(r, "products", "canDelete", FALSE)
  IN /\ Received(r, gate)
     /\ IF ~gate.ok
        THEN Respond(gate.status, gate.message, Null) /\ UNCHANGED products
        ELSE IF ~Exists(products, id)
        THEN Respond(404, "Product not found", Null) /\ UNCHANGED products
        ELSE products' = Deleted(products, id) /\ Respond(204, "", Null)
     /\ UNCHANGED <<inflight, now, companies, users, roles, permissions, customers, invoices,
                    invoiceItems, nextId, authToken>>

----------------------------------------------------------------------------
(* Customer routes *)

\* GET /api/customers
GetCustomersRoute(c, authorization) ==
  LET r == Request("GET /api/customers", authorization, Null, Null, Null)
      gate == Chain(r, "customers", "canRead", FALSE)
  IN /\ Received(r, gate)
     /\ IF ~gate.ok THEN Respond(gate.status, gate.message, Null)
        ELSE Respond(200, "", OfCompany(customers, gate.user.companyId))
     /\ UNCHANGED <<inflight, now, store, nextId, authToken>>

\* POST /api/customers
PostCustomer(c, authorization, body) ==
  LET r == Request("POST /api/customers", authorization, Null, body, Null)
      gate == Chain(r, "customers", "canCreate", FALSE)
      customerData == Spread(Strip(body, InsertCustomerKeys), [companyId |-> gate.user.companyId])
      id == RandomUUID("customers")
  IN /\ CanCreate("customers", 0, 1)
     /\ Received(r, gate)
     /\ IF ~gate.ok
        THEN Respond(gate.status, gate.message, Null) /\ UNCHANGED <<customers, nextId>>
        ELSE IF ~ParseOk(body, InsertCustomerKeys)
        THEN Respond(400, "Invalid customer data", Null) /\ UNCHANGED <<customers, nextId>>
        ELSE /\ customers' = Created(customers, customerData, id)
             /\ Bump("customers", 1)
             /\ Respond(201, "", Spread(customerData, [id |-> id]))
     /\ UNCHANGED <<inflight, now, companies, users, roles, permissions, products, invoices,
                    invoiceItems, authToken>>

\* PUT /api/customers/:id
PutCustomer(c, authorization, id, body) ==
  LET r == Request("PUT /api/customers/:id", authorization, [id |-> id], body, Null)
      gate == Chain(r, "customers", "canUpdate", FALSE)
      customerData == Strip(body, InsertCustomerKeys)
  IN /\ Received(r, gate)
     /\ IF ~gate.ok
        THEN Respond(gate.status, gate.message, Null) /\ UNCHANGED customers
        ELSE IF ~PartialOk(body, InsertCustomerKeys)
        THEN Respond(400, "Invalid customer data", Null) /\ UNCHANGED customers
        ELSE IF ~Exists(customers, id)
        THEN Respond(404, "Customer not found", Null) /\ UNCHANGED customers
        ELSE /\ customers' = Updated(customers, id, customerData)
             /\ Respond(200, "", Spread(Find(customers, WithId(customers, id)), customerData))
     /\ UNCHANGED <<inflight, now, companies, users, roles, permissions, products, invoices,
                    invoiceItems, nextId, authToken>>

\* DELETE /api/customers/:id
DeleteCustomerRoute(c, authorization, id) ==
  LET r == Request("DELETE /api/customers/:id", authorization, [id |-> id], Null, Null)
      gate == Chain(r, "customers", "canDelete", FALSE)
  IN /\ Received(r, gate)
     /\ IF ~gate.ok
        THEN Respond(gate.status, gate.message, Null) /\ UNCHANGED customers
        ELSE IF ~Exists(customers, id)
        THEN Respond(404, "Customer not found", Null) /\ UNCHANGED customers
        ELSE customers' = Deleted(customers, id) /\ Respond(204, "", Null)
     /\ UNCHANGED <<inflight, now, companies, users, roles, permissions, products, invoices,
                    invoiceItems, nextId, authToken>>

----------------------------------------------------------------------------
(* Invoice routes *)

\* z.array(insertInvoiceItemSchema).parse(items) succeeds
ItemsOk(body) ==
  /\ Has(body, "items")
  /\ \A i \in DOMAIN body.items : InsertInvoiceItemKeys \subseteq DOMAIN body.items[i]

\* storage.getInvoiceWithDetails: the invoice with its customer, its company and
\* its items, each item with its product; undefined when the invoice, its
\* customer or its company is not stored.
GetInvoiceWithDetails(id) ==
  LET invoice == Find(invoices, WithId(invoices, id)) IN
  IF invoice = Null THEN Null
  ELSE LET customer == Find(customers, WithId(customers, invoice.customerId))
           company == Find(companies, WithId(companies, invoice.companyId))
           OfInvoice(i) == i.invoiceId = invoice.id
           items == SelectSeq(invoiceItems, OfInvoice)
           itemsWithProducts ==
             [i \in DOMAIN items |->
                Spread(items[i],
                       [product |-> Find(products, WithId(products, items[i].productId))])]
       IN IF customer = Null \/ company = Null THEN Null
          ELSE Spread(invoice, [customer |-> customer, company |-> company,
                                items |-> itemsWithProducts])

\* PDFService.generateInvoicePDF: the document prints the company, the status,
\* the customer, one line per item (quantity, unit price, total; the items'
\* products are not printed) and the invoice's subtotal, tax and total.
GenerateInvoicePDF(invoice) ==
  [company |-> invoice.company, status |-> invoice.status,
   customer |-> invoice.customer,
   lines |-> [i \in DOMAIN invoice.items |->
                Strip(invoice.items[i], {"quantity", "unitPrice", "total"})],
   subtotal |-> invoice.subtotal, tax |-> invoice.tax, total |-> invoice.total]

\* storage.createInvoice: items.map(item => ({...item, id: randomUUID(), invoiceId}))
NewItems(items, invoiceId) ==
  [i \in DOMAIN items |->
     Spread(items[i], [id |-> UUIDs.items[nextId.items + i - 1], invoiceId |-> invoiceId])]

\* GET /api/invoices
GetInvoicesRoute(c, authorization) ==
  LET r == Request("GET /api/invoices", authorization, Null, Null, Null)
      gate == Chain(r, "invoices", "canRead", FALSE)
  IN /\ Received(r, gate)
     /\ IF ~gate.ok THEN Respond(gate.status, gate.message, Null)
        ELSE Respond(200, "", OfCompany(invoices, gate.user.companyId))
     /\ UNCHANGED <<inflight, now, store, nextId, authToken>>

\* GET /api/invoices/:id
GetInvoiceRoute(c, authorization, id) ==
  LET r == Request("GET /api/invoices/:id", authorization, [id |-> id], Null, Null)
      gate == Chain(r, "invoices", "canRead", FALSE)
      invoice == GetInvoiceWithDetails(id)
  IN /\ Received(r, gate)
     /\ IF ~gate.ok THEN Respond(gate.status, gate.message, Null)
        ELSE IF invoice = Null THEN Respond(404, "Invoice not found", Null)
        ELSE Respond(200, "", invoice)
     /\ UNCHANGED <<inflight, now, store, nextId, authToken>>

\* POST /api/invoices
PostInvoice(c, authorization, body) ==
  LET r == Request("POST /api/invoices", authorization, Null, body, Null)
      gate == Chain(r, "invoices", "canCreate", FALSE)
      validatedInvoice ==
        Spread(Strip(body, InsertInvoiceKeys), [companyId |-> gate.user.companyId])
      validatedItems == [i \in DOMAIN body.items |-> Strip(body.items[i], InsertInvoiceItemKeys)]
      id == RandomUUID("invoices")
      n == IF Has(body, "items") THEN Len(body.items) ELSE 0
  IN /\ CanCreate("invoices", 0, 1)
     /\ CanCreate("items", 0, n)
     /\ Received(r, gate)
     /\ IF ~gate.ok
        THEN Respond(gate.status, gate.message, Null)
             /\ UNCHANGED <<invoices, invoiceItems, nextId>>
        ELSE IF ~(ParseOk(body, InsertInvoiceKeys) /\ ItemsOk(body))
        THEN Respond(400, "Invalid invoice data", Null)
             /\ UNCHANGED <<invoices, invoiceItems, nextId>>
        ELSE /\ invoices' = Created(invoices, validatedInvoice, id)
             /\ invoiceItems' = invoiceItems \o NewItems(validatedItems, id)
             /\ nextId' = [nextId EXCEPT !["invoices"] = @ + 1, !["items"] = @ + n]
             /\ Respond(201, "", Spread(validatedInvoice, [id |-> id]))
     /\ UNCHANGED <<inflight, now, companies, users, roles, permissions, products, customers,
                    authToken>>

\* PUT /api/invoices/:id
PutInvoice(c, authorization, id, body) ==
  LET r == Request("PUT /api/invoices/:id", authorization, [id |-> id], body, Null)
      gate == Chain(r, "invoices", "canUpdate", FALSE)
      invoiceData == Strip(body, InsertInvoiceKeys)
  IN /\ Received(r, gate)
     /\ IF ~gate.ok
        THEN Respond(gate.status, gate.message, Null) /\ UNCHANGED invoices
        ELSE IF ~PartialOk(body, InsertInvoiceKeys)
        THEN Respond(400, "Invalid invoice data", Null) /\ UNCHANGED invoices
        ELSE IF ~Exists(invoices, id)
        THEN Respond(404, "Invoice not found", Null) /\ UNCHANGED invoices
        ELSE /\ invoices' = Updated(invoices, id, invoiceData)
             /\ Respond(200, "", Spread(Find(invoices, WithId(invoices, id)), invoiceData))
     /\ UNCHANGED <<inflight, now, companies, users, roles, permissions, products, customers,
                    invoiceItems, nextId, authToken>>

\* DELETE /api/invoices/:id with a deleteInvoice that drops every invoice item.
DeleteInvoiceRouteAllItems(c, authorization, id) ==
  LET r == Request("DELETE /api/invoices/:id", authorization, [id |-> id], Null, Null)
      gate == Chain(r, "invoices", "canDelete", FALSE)
  IN /\ Received(r, gate)
     /\ IF ~gate.ok
        THEN Respond(gate.status, gate.message, Null) /\ UNCHANGED <<invoices, invoiceItems>>
        ELSE IF ~Exists(invoices, id)
        THEN Respond(404, "Invoice not found", Null) /\ UNCHANGED <<invoices, invoiceItems>>
        ELSE /\ invoices' = Deleted(invoices, id)
             /\ invoiceItems' = <<>>
             /\ Respond(204, "", Null)
     /\ UNCHANGED <<inflight, now, companies, users, roles, permissions, products, customers,
                    nextId, authToken>>

\* DELETE /api/invoices/:id
DeleteInvoiceRoute(c, authorization, id) ==
  LET r == Request("DELETE /api/invoices/:id", authorization, [id |-> id], Null, Null)
      gate == Chain(r, "invoices", "canDelete", FALSE)
      OfOthers(i) == i.invoiceId # id
  IN /\ Received(r, gate)
     /\ IF ~gate.ok
        THEN Respond(gate.status, gate.message, Null) /\ UNCHANGED <<invoices, invoiceItems>>
        ELSE IF ~Exists(invoices, id)
        THEN Respond(404, "Invoice not found", Null) /\ UNCHANGED <<invoices, invoiceItems>>
        ELSE /\ invoices' = Deleted(invoices, id)
             /\ invoiceItems' = SelectSeq(invoiceItems, OfOthers)
             /\ Respond(204, "", Null)
     /\ UNCHANGED <<inflight, now, companies, users, roles, permissions, products, customers,
                    nextId, authToken>>

\* GET /api/invoices/:id/pdf
GetInvoicePdfRoute(c, authorization, id) ==
  LET r == Request("GET /api/invoices/:id/pdf", authorization, [id |-> id], Null, Null)
      gate == Chain(r, "invoices", "canRead", FALSE)
      invoice == GetInvoiceWithDetails(id)
  IN /\ Received(r, gate)
     /\ IF ~gate.ok THEN Respond(gate.status, gate.message, Null)
        ELSE IF invoice = Null THEN Respond(404, "Invoice not found", Null)
        ELSE Respond(200, "", GenerateInvoicePDF(invoice))
     /\ UNCHANGED <<inflight, now, store, nextId, authToken>>

----------------------------------------------------------------------------
(* Dashboard *)

RECURSIVE Reduce(_, _)
\* arr.reduce((sum, r) => sum + r[field], 0)
Reduce(arr, field) ==
  IF arr = <<>> THEN 0 ELSE Head(arr)[field] + Reduce(Tail(arr), field)

\* getDashboardStats over all invoices and customers, whatever their company.
DashboardStatsAllCompanies(invoiceFile, customerFile, itemFile, companyId) ==
  LET Paid(i) == i.status = "paid"
      Pending(i) == i.status = "pending"
      Active(k) == k.isActive
      Sold(item) ==
        LET invoice == Find(invoiceFile, WithId(invoiceFile, item.invoiceId))
        IN invoice # Null /\ invoice.status = "paid"
  IN [totalRevenue |-> Reduce(SelectSeq(invoiceFile, Paid), "total"),
      activeCustomers |-> Len(SelectSeq(customerFile, Active)),
      pendingInvoices |-> Len(SelectSeq(invoiceFile, Pending)),
      productsSold |-> Reduce(SelectSeq(itemFile, Sold), "quantity")]

\* storage.getDashboardStats over the three files it reads.
DashboardStats(invoiceFile, customerFile, itemFile, companyId) ==
  LET ofCompany == OfCompany(invoiceFile, companyId)
      Paid(i) == i.status = "paid"
      Pending(i) == i.status = "pending"
      Active(k) == k.isActive
      Sold(item) ==
        LET invoice == Find(ofCompany, WithId(ofCompany, item.invoiceId))
        IN invoice # Null /\ invoice.status = "paid"
  IN [totalRevenue |-> Reduce(SelectSeq(ofCompany, Paid), "total"),
      activeCustomers |-> Len(SelectSeq(OfCompany(customerFile, companyId), Active)),
      pendingInvoices |-> Len(SelectSeq(ofCompany, Pending)),
      productsSold |-> Reduce(SelectSeq(itemFile, Sold), "quantity")]

GetDashboardStats(companyId) == DashboardStats(invoices, customers, invoiceItems, companyId)

\* GET /api/dashboard/stats
GetDashboardStatsRoute(c, authorization) ==
  LET r == Request("GET /api/dashboard/stats", authorization, Null, Null, Null)
      gate == Chain(r, "", "", FALSE)
  IN /\ Received(r, gate)
     /\ IF ~gate.ok THEN Respond(gate.status, gate.message, Null)
        ELSE Respond(200, "", GetDashboardStats(gate.user.companyId))
     /\ UNCHANGED <<inflight, now, store, nextId, authToken>>

----------------------------------------------------------------------------
(* Reports page (client) *)

\* customers?.find(c => c.id === customerId)?.name || 'Unknown Customer'
GetCustomerName(customerList, customerId) ==
  LET customer == Find(customerList, WithId(customerList, customerId))
  IN IF customer = Null \/ customer.name = "" THEN "Unknown Customer" ELSE customer.name

\* invoices?.filter(...): the customer and status filters, 'all' matching any.
FilteredInvoices(invoiceList, customerFilter, statusFilter) ==
  LET Matches(invoice) ==
        /\ customerFilter = "all" \/ invoice.customerId = customerFilter
        /\ statusFilter = "all" \/ invoice.status = statusFilter
  IN SelectSeq(invoiceList, Matches)

RECURSIVE SalesByCustomer(_, _, _)
\* filteredInvoices?.reduce((acc, invoice) => ..., {}): acc is keyed by
\* getCustomerName(invoice.customerId).
SalesByCustomer(customerList, filtered, acc) ==
  IF filtered = <<>> THEN acc
  ELSE LET invoice == Head(filtered)
           customerName == GetCustomerName(customerList, invoice.customerId)
           row == IF customerName \in DOMAIN acc THEN acc[customerName]
                  ELSE [customerName |-> customerName, invoiceCount |-> 0,
                        totalRevenue |-> 0, paidRevenue |-> 0]
           counted == [row EXCEPT !.invoiceCount = @ + 1,
                                  !.totalRevenue = @ + invoice.total,
                                  !.paidRevenue = IF invoice.status = "paid"
                                                  THEN @ + invoice.total ELSE @]
       IN SalesByCustomer(customerList, Tail(filtered),
                          Spread(acc, [n \in {customerName} |-> counted]))

\* The Reports page computes its sales report from the customers and the
\* invoices it fetched, under the filters chosen.
Reports(customerFilter, statusFilter) ==
  LET filtered == FilteredInvoices(invoices, customerFilter, statusFilter)
      filters == [customerFilter |-> customerFilter, statusFilter |-> statusFilter]
  IN /\ req' = Spread(Request("Reports", Null, Null, Null, filters), [user |-> Null])
     /\ Respond(200, "", SalesByCustomer(customers, filtered, Null))
     /\ UNCHANGED <<inflight, now, store, nextId, authToken>>

----------------------------------------------------------------------------
(* The server after start-up, over the seeded data files *)

NoRequest == [route |-> "", authorization |-> Null, params |-> Null, body |-> Null,
              query |-> Null, user |-> Null]
NoResponse == [status |-> 0, message |-> "", body |-> Null]

Init ==
  /\ now = 0
  /\ companies = SeedCompanies
  /\ users = SeedUsers
  /\ roles = SeedRoles
  /\ permissions = SeedPermissions
  /\ products = <<>>
  /\ customers = <<>>
  /\ invoices = <<>>
  /\ invoiceItems = <<>>
  /\ nextId = [companies |-> Len(SeedCompanies) + 1, users |-> Len(SeedUsers) + 1,
               products |-> 1, customers |-> 1, invoices |-> 1, items |-> 1]
  /\ authToken = [c \in Clients |-> Null]
  /\ req = NoRequest
  /\ res = NoResponse
  /\ inflight = [c \in Clients |-> Idle]

----------------------------------------------------------------------------
(* Sessions: tokens are issued, time passes, and an administrator changes   *)
(* or deletes users and companies while the tokens are in use.             *)

DemoLogins ==
  { [email |-> "super@admin.com", password |-> "password"],
    [email |-> "admin@acme.com", password |-> "password"] }

\* Demotion, promotion, deactivation.
SessionUserPatches ==
  { [roleId |-> "r4"], [roleId |-> "r2"], [isActive |-> FALSE] }

SessionNext ==
  \/ Tick
  \/ \E c \in Clients, body \in DemoLogins : Login(c, body)
  \/ \E c \in Clients : \E a \in GetAuthHeaders(c) : Me(c, a)
  \/ \E c \in Clients : \E a \in GetAuthHeaders(c) : GetUsersRoute(c, a, Null)
  \/ \E c \in Clients : \E a \in GetAuthHeaders(c), body \in SessionUserPatches :
        PutUser(c, a, "u2", body, Null)
  \/ \E c \in Clients : \E a \in GetAuthHeaders(c) : DeleteUserRoute(c, a, "u2", Null)
  \/ \E c \in Clients : \E a \in GetAuthHeaders(c) : DeleteCompanyRoute(c, a, "c1")

SpecSession == Init /\ [][SessionNext]_vars

----------------------------------------------------------------------------
(* Login over every users.json the API can produce: a Super Admin may create  *)
(* and update users with any email, password, isActive and companyId, and   *)
(* delete companies, which leaves their users in place.                    *)

StoredUserAt(i) ==
  { [id |-> UUIDs.users[i], companyId |-> companyId, roleId |-> "r2", email |-> email,
     password |-> HashPassword(password), isActive |-> isActive] :
      companyId \in {"c1", "c9"}, email \in {"admin@acme.com", "admin@globex.com"},
      password \in {"password", "hunter2"}, isActive \in BOOLEAN }

UserStores ==
  UNION { {f \in [1 .. n -> UNION {StoredUserAt(i) : i \in 1 .. n}] :
             \A i \in 1 .. n : f[i] \in StoredUserAt(i)} : n \in 0 .. MaxStored }

LoginBodies ==
  { [email |-> email, password |-> password] :
      email \in {"admin@acme.com", "admin@globex.com", "nobody@example.com", "not-an-email"},
      password \in {"password", "hunter2", ""} }
    \cup {Null, [email |-> "admin@acme.com"]}

InitLogin ==
  /\ now = 0
  /\ companies = SeedCompanies
  /\ users \in UserStores
  /\ roles = SeedRoles
  /\ permissions = SeedPermissions
  /\ products = <<>>
  /\ customers = <<>>
  /\ invoices = <<>>
  /\ invoiceItems = <<>>
  /\ nextId = [companies |-> Len(SeedCompanies) + 1, users |-> Len(users) + 1,
               products |-> 1, customers |-> 1, invoices |-> 1, items |-> 1]
  /\ authToken = [c \in Clients |-> Null]
  /\ req = NoRequest
  /\ res = NoResponse
  /\ inflight = [c \in Clients |-> Idle]

LoginNext == \E c \in Clients, body \in LoginBodies : Login(c, body)

SpecLogin == InitLogin /\ [][LoginNext]_vars

----------------------------------------------------------------------------
(* User administration: the seeded Super Admin and the two Company Admins   *)
(* list, create, update and delete users, with a companyId in the body or  *)
(* the query string or in neither.                                          *)

AdminLogins ==
  { [email |-> "super@admin.com", password |-> "password"],
    [email |-> "admin@acme.com", password |-> "password"] }

CompanyQueries == {Null, [companyId |-> "c1"], [companyId |-> "c2"], [companyId |-> ""]}

NewUser(companyId) ==
  [companyId |-> companyId, roleId |-> "r4", email |-> "clerk@globex.com",
   password |-> "hunter2", isActive |-> TRUE]

PostUserBodies == {NewUser("c1"), NewUser("c2"), [companyId |-> "c2"]}

PutUserBodies == {Null, [isActive |-> FALSE], [companyId |-> "c1"], [companyId |-> "c2"]}

UsersNext ==
  \/ \E c \in Clients, body \in AdminLogins : Login(c, body)
  \/ \E c \in Clients : \E a \in GetAuthHeaders(c), query \in CompanyQueries :
        GetUsersRoute(c, a, query)
  \/ \E c \in Clients : \E a \in GetAuthHeaders(c), body \in PostUserBodies,
        query \in CompanyQueries : PostUser(c, a, body, query)
  \/ \E c \in Clients : \E a \in GetAuthHeaders(c), body \in PutUserBodies,
        query \in CompanyQueries : PutUser(c, a, "u4", body, query)
  \/ \E c \in Clients : \E a \in GetAuthHeaders(c), query \in CompanyQueries :
        DeleteUserRoute(c, a, "u4", query)

SpecUsers == Init /\ [][UsersNext]_vars

----------------------------------------------------------------------------
(* Tenants: the administrators of two companies work on products,          *)
(* customers and invoices side by side.                                    *)

TenantLogins ==
  { <<"browser1", [email |-> "admin@acme.com", password |-> "password"]>>,
    <<"browser2", [email |-> "admin@globex.com", password |-> "password"]>> }

ProductBodies == {Null, [companyId |-> "c2", name |-> "widget"]}
ProductPatches == {[name |-> "gadget"]}
CustomerBodies == {[companyId |-> "c2", name |-> "Wile E.", isActive |-> TRUE]}
CustomerPatches == {[name |-> "Road Runner"]}
InvoiceBodies ==
  { [companyId |-> "c2", customerId |-> "k1", subtotal |-> 25, tax |-> 2, total |-> 27,
     status |-> "pending",
     items |-> << [invoiceId |-> "", productId |-> "p1", quantity |-> 5, unitPrice |-> 5,
                   total |-> 25] >>] }
InvoicePatches == {[status |-> "paid"]}

TenantNext ==
  \/ \E l \in TenantLogins : Login(l[1], l[2])
  \/ \E c \in Clients : \E a \in GetAuthHeaders(c) : GetProductsRoute(c, a)
  \/ \E c \in Clients : \E a \in GetAuthHeaders(c), body \in ProductBodies :
        PostProduct(c, a, body)
  \/ \E c \in Clients : \E a \in GetAuthHeaders(c), body \in ProductPatches :
        PutProduct(c, a, "p1", body)
  \/ \E c \in Clients : \E a \in GetAuthHeaders(c) : DeleteProductRoute(c, a, "p1")
  \/ \E c \in Clients : \E a \in GetAuthHeaders(c) : GetCustomersRoute(c, a)
  \/ \E c \in Clients : \E a \in GetAuthHeaders(c), body \in CustomerBodies :
        PostCustomer(c, a, body)
  \/ \E c \in Clients : \E a \in GetAuthHeaders(c), body \in CustomerPatches :
        PutCustomer(c, a, "k1", body)
  \/ \E c \in Clients : \E a \in GetAuthHeaders(c) : DeleteCustomerRoute(c, a, "k1")
  \/ \E c \in Clients : \E a \in GetAuthHeaders(c) : GetInvoicesRoute(c, a)
  \/ \E c \in Clients : \E a \in GetAuthHeaders(c) : GetInvoiceRoute(c, a, "i1")
  \/ \E c \in Clients : \E a \in GetAuthHeaders(c), body \in InvoiceBodies :
        PostInvoice(c, a, body)
  \/ \E c \in Clients : \E a \in GetAuthHeaders(c), body \in InvoicePatches :
        PutInvoice(c, a, "i1", body)
  \/ \E c \in Clients : \E a \in GetAuthHeaders(c) : DeleteInvoiceRoute(c, a, "i1")
  \/ \E c \in Clients : \E a \in GetAuthHeaders(c) : GetInvoicePdfRoute(c, a, "i1")

SpecTenant == Init /\ [][TenantNext]_vars

----------------------------------------------------------------------------
(* Permissions: the server runs over a permissions.json that grants the    *)
(* Company Admin role any flags on at most MaxRows modules, and a Company  *)
(* Admin calls the gated routes.                                           *)

GrantedModules == {"users", "products", "customers"}

\* The flags of one row: canCreate, canRead, canUpdate, canDelete.
GrantedFlags ==
  { <<FALSE, FALSE, FALSE, FALSE>>, <<FALSE, TRUE, FALSE, FALSE>>,
    <<TRUE, TRUE, TRUE, FALSE>>, <<FALSE, FALSE, FALSE, TRUE>> }

\* The rows of the other roles, as seeded.
OtherRolesRows == LET P(p) == p.roleId # "r2" IN SelectSeq(SeedPermissions, P)

\* At most MaxRows rows for role r2, one per module.
GrantedRows ==
  UNION { { f \in [1 .. n -> {Row("r2", m, g[1], g[2], g[3], g[4]) :
                                m \in GrantedModules, g \in GrantedFlags}] :
              \A i, j \in 1 .. n : i # j => f[i].module # f[j].module }
          : n \in 0 .. MaxRows }

InitPerm ==
  /\ now = 0
  /\ companies = SeedCompanies
  /\ users = SeedUsers
  /\ roles = SeedRoles
  /\ permissions \in {OtherRolesRows \o rows : rows \in GrantedRows}
  /\ products = <<>>
  /\ customers = <<>>
  /\ invoices = <<>>
  /\ invoiceItems = <<>>
  /\ nextId = [companies |-> Len(SeedCompanies) + 1, users |-> Len(SeedUsers) + 1,
               products |-> 1, customers |-> 1, invoices |-> 1, items |-> 1]
  /\ authToken = [c \in Clients |-> Null]
  /\ req = NoRequest
  /\ res = NoResponse
  /\ inflight = [c \in Clients |-> Idle]

PermNext ==
  \/ Login("browser1", [email |-> "admin@acme.com", password |-> "password"])
  \/ \E a \in GetAuthHeaders("browser1") : GetUsersRoute("browser1", a, Null)
  \/ \E a \in GetAuthHeaders("browser1") : PostUser("browser1", a, NewUser("c1"), Null)
  \/ \E a \in GetAuthHeaders("browser1") :
        PutUser("browser1", a, "u3", [isActive |-> FALSE], Null)
  \/ \E a \in GetAuthHeaders("browser1") : DeleteUserRoute("browser1", a, "u3", Null)
  \/ \E a \in GetAuthHeaders("browser1") : GetProductsRoute("browser1", a)
  \/ \E a \in GetAuthHeaders("browser1"), body \in ProductBodies :
        PostProduct("browser1", a, body)
  \/ \E a \in GetAuthHeaders("browser1"), body \in ProductPatches :
        PutProduct("browser1", a, "p1", body)
  \/ \E a \in GetAuthHeaders("browser1") : DeleteProductRoute("browser1", a, "p1")
  \/ \E a \in GetAuthHeaders("browser1") : GetCustomersRoute("browser1", a)
  \/ \E a \in GetAuthHeaders("browser1"), body \in CustomerBodies :
        PostCustomer("browser1", a, body)
  \/ \E a \in GetAuthHeaders("browser1") : GetInvoicesRoute("browser1", a)
  \/ \E a \in GetAuthHeaders("browser1") : DeleteCompanyRoute("browser1", a, "c2")

SpecPerm == InitPerm /\ [][PermNext]_vars

----------------------------------------------------------------------------
(* Invoices: a Company Admin creates, changes, reads and deletes invoices  *)
(* with bodies of any shape the API accepts or refuses.                    *)

Item(quantity, unitPrice, total) ==
  [invoiceId |-> "", productId |-> "p1", quantity |-> quantity, unitPrice |-> unitPrice,
   total |-> total]

InvoiceOf(subtotal, tax, total, status, items) ==
  [companyId |-> "c1", customerId |-> "k1", subtotal |-> subtotal, tax |-> tax,
   total |-> total, status |-> status, items |-> items]

\* What CreateInvoiceModal sends: no companyId, totals or status, items
\* without invoiceId and total.
ClientInvoiceRequest ==
  [customerId |-> "k1", items |-> << [productId |-> "p1", quantity |-> 2, unitPrice |-> 10] >>]

InvoiceRequests ==
  { InvoiceOf(25, 2, 27, "pending", << Item(2, 10, 20), Item(1, 5, 5) >>),
    InvoiceOf(25, 2, 27, "pending", << Item(5, 5, 25) >>),
    InvoiceOf(1, 0, 1, "pending", << Item(2, 10, 20) >>),
    InvoiceOf(25, 2, 27, "pending", << Item(5, 5, 1) >>),
    InvoiceOf(25, 2, 27, "paid", << Item(5, 5, 25) >>),
    InvoiceOf(0, 0, 0, "pending", << >>),
    InvoiceOf(0, 0, 0, "pending", << Item(0, 5, 0) >>),
    InvoiceOf(25, 2, 27, "pending", << Item(-5, -5, 25) >>),
    InvoiceOf(25, 2, 27, "shipped", << Item(5, 5, 25) >>),
    [companyId |-> "c1", customerId |-> "k1", subtotal |-> 25, tax |-> 2, total |-> 27,
     status |-> "pending"],
    ClientInvoiceRequest }

InvoiceChanges == {[status |-> "paid"], [subtotal |-> 50], [status |-> "shipped"]}

InvoiceIds == {"i1", "i2", "i9"}

InvoiceNext ==
  \/ Login("browser1", [email |-> "admin@acme.com", password |-> "password"])
  \/ \E a \in GetAuthHeaders("browser1"), body \in CustomerBodies :
        PostCustomer("browser1", a, body)
  \/ \E a \in GetAuthHeaders("browser1") : DeleteCustomerRoute("browser1", a, "k1")
  \/ \E a \in GetAuthHeaders("browser1"), body \in InvoiceRequests :
        PostInvoice("browser1", a, body)
  \/ \E a \in GetAuthHeaders("browser1"), body \in InvoiceChanges :
        PutInvoice("browser1", a, "i1", body)
  \/ \E a \in GetAuthHeaders("browser1"), id \in InvoiceIds :
        DeleteInvoiceRoute("browser1", a, id)
  \/ \E a \in GetAuthHeaders("browser1"), id \in InvoiceIds : GetInvoiceRoute("browser1", a, id)
  \/ \E a \in GetAuthHeaders("browser1"), id \in InvoiceIds :
        GetInvoicePdfRoute("browser1", a, id)

SpecInvoice == Init /\ [][InvoiceNext]_vars

----------------------------------------------------------------------------
(* The Document Store fails: while a request is handled a data file cannot *)
(* be read, or no data file can be written.  The product routes under      *)
(* such a fault.                                                           *)

NoFault == [unreadable |-> {}, unwritable |-> FALSE]
Unreadable(file) == [unreadable |-> {file}, unwritable |-> FALSE]
Unwritable == [unreadable |-> {}, unwritable |-> TRUE]

Faults ==
  {NoFault, Unreadable("users.json"), Unreadable("permissions.json"),
   Unreadable("products.json"), Unwritable}

\* JSONStorage.readFile: the file's content, and [] when reading it throws.
ReadFile(file, content, fault) == IF file \in fault.unreadable THEN <<>> ELSE content

\* authMiddleware over the files as readFile returns them: getUserWithRole
\* finds no user in an unreadable users.json, and no permissions in an
\* unreadable permissions.json.
AuthMiddlewareOnDisk(authorization, fault) ==
  LET token == ExtractTokenFromHeader(authorization) IN
  IF token = Null THEN Reject(401, "Authentication required")
  ELSE LET payload == VerifyToken(token) IN
       IF payload = Null THEN Reject(401, "Invalid token")
       ELSE LET user == IF ReadFile("users.json", users, fault) = <<>> THEN Null
                        ELSE GetUserWithRole(payload.userId)
            IN IF user = Null THEN Reject(401, "User not found")
               ELSE Pass(Spread(user,
                      [permissions |-> ReadFile("permissions.json", user.permissions, fault)]))

\* authMiddleware, then requirePermission, under the fault.
ChainOnDisk(r, module, action, fault) ==
  LET auth == AuthMiddlewareOnDisk(r.authorization, fault) IN
  IF ~auth.ok THEN auth
  ELSE IF ~RequirePermission(auth.user, module, action)
       THEN [Reject(403, "Insufficient permissions") EXCEPT !.user = auth.user]
  ELSE auth

\* The request as received, with the fault the file system had while it was handled.
ReceivedOnDisk(r, gate, fault) == req' = Spread(r, [user |-> gate.user, fault |-> fault])

\* GET /api/products under the fault
GetProductsOnDisk(c, authorization, fault) ==
  LET r == Request("GET /api/products", authorization, Null, Null, Null)
      gate == ChainOnDisk(r, "products", "canRead", fault)
      file == ReadFile("products.json", products, fault)
  IN /\ ReceivedOnDisk(r, gate, fault)
     /\ IF ~gate.ok THEN Respond(gate.status, gate.message, Null)
        ELSE Respond(200, "", OfCompany(file, gate.user.companyId))
     /\ UNCHANGED <<inflight, now, store, nextId, authToken>>

\* POST /api/products under the fault: a writeFile that throws is caught by
\* the handler's catch, which answers 400.
PostProductOnDisk(c, authorization, body, fault) ==
  LET r == Request("POST /api/products", authorization, Null, body, Null)
      gate == ChainOnDisk(r, "products", "canCreate", fault)
      productData == Spread(Strip(body, InsertProductKeys), [companyId |-> gate.user.companyId])
      id == RandomUUID("products")
      file == ReadFile("products.json", products, fault)
  IN /\ nextId.products <= MaxCalls
     /\ ReceivedOnDisk(r, gate, fault)
     /\ IF ~gate.ok
        THEN Respond(gate.status, gate.message, Null) /\ UNCHANGED <<products, nextId>>
        ELSE IF ~ParseOk(body, InsertProductKeys)
        THEN Respond(400, "Invalid product data", Null) /\ UNCHANGED <<products, nextId>>
        ELSE IF fault.unwritable
        THEN Respond(400, "Invalid product data", Null) /\ UNCHANGED <<products, nextId>>
        ELSE /\ products' = Created(file, productData, id)
             /\ Bump("products", 1)
             /\ Respond(201, "", Spread(productData, [id |-> id]))
     /\ UNCHANGED <<inflight, now, companies, users, roles, permissions, customers, invoices,
                    invoiceItems, authToken>>

\* PUT /api/products/:id under the fault
PutProductOnDisk(c, authorization, id, body, fault) ==
  LET r == Request("PUT /api/products/:id", authorization, [id |-> id], body, Null)
      gate == ChainOnDisk(r, "products", "canUpdate", fault)
      productData == Strip(body, InsertProductKeys)
      file == ReadFile("products.json", products, fault)
  IN /\ ReceivedOnDisk(r, gate, fault)
     /\ IF ~gate.ok
        THEN Respond(gate.status, gate.message, Null) /\ UNCHANGED products
        ELSE IF ~PartialOk(body, InsertProductKeys)
        THEN Respond(400, "Invalid product data", Null) /\ UNCHANGED products
        ELSE IF ~Exists(file, id)
        THEN Respond(404, "Product not found", Null) /\ UNCHANGED products
        ELSE IF fault.unwritable
        THEN Respond(400, "Invalid product data", Null) /\ UNCHANGED products
        ELSE /\ products' = Updated(file, id, productData)
             /\ Respond(200, "", Spread(Find(file, WithId(file, id)), productData))
     /\ UNCHANGED <<inflight, now, companies, users, roles, permissions, customers, invoices,
                    invoiceItems, nextId, authToken>>

\* DELETE /api/products/:id under the fault
DeleteProductOnDisk(c, authorization, id, fault) ==
  LET r == Request("DELETE /api/products/:id", authorization, [id |-> id], Null, Null)
      gate == ChainOnDisk(r, "products", "canDelete", fault)
      file == ReadFile("products.json", products, fault)
  IN /\ ReceivedOnDisk(r, gate, fault)
     /\ IF ~gate.ok
        THEN Respond(gate.status, gate.message, Null) /\ UNCHANGED products
        ELSE IF ~Exists(file, id)
        THEN Respond(404, "Product not found", Null) /\ UNCHANGED products
        ELSE IF fault.unwritable
        THEN Respond(500, "Failed to delete product", Null) /\ UNCHANGED products
        ELSE products' = Deleted(file, id) /\ Respond(204, "", Null)
     /\ UNCHANGED <<inflight, now, companies, users, roles, permissions, customers, invoices,
                    invoiceItems, nextId, authToken>>

DiskLogins ==
  { [email |-> "admin@acme.com", password |-> "password"],
    [email |-> "manager@acme.com", password |-> "password"] }

DiskNext ==
  \/ \E c \in Clients, body \in DiskLogins : Login(c, body)
  \/ \E c \in Clients : \E a \in GetAuthHeaders(c), fault \in Faults :
        GetProductsOnDisk(c, a, fault)
  \/ \E c \in Clients : \E a \in GetAuthHeaders(c), body \in ProductBodies, fault \in Faults :
        PostProductOnDisk(c, a, body, fault)
  \/ \E c \in Clients : \E a \in GetAuthHeaders(c), body \in ProductPatches, fault \in Faults :
        PutProductOnDisk(c, a, "p1", body, fault)
  \/ \E c \in Clients : \E a \in GetAuthHeaders(c), fault \in Faults :
        DeleteProductOnDisk(c, a, "p1", fault)

SpecDisk == Init /\ [][DiskNext]_vars

----------------------------------------------------------------------------
(* Companies: the server runs over the seeded permissions.json, or over    *)
(* one that also holds a companies row for the Company Admin role, and     *)
(* users of every role call the company routes.                            *)

\* The seeded table, alone or followed by one companies row for role r2.
CompanyGrants ==
  {SeedPermissions} \cup
  {Append(SeedPermissions, Row("r2", "companies", g[1], g[2], g[3], g[4])) :
     g \in GrantedFlags}

InitCompany ==
  /\ now = 0
  /\ companies = SeedCompanies
  /\ users = SeedUsers
  /\ roles = SeedRoles
  /\ permissions \in CompanyGrants
  /\ products = <<>>
  /\ customers = <<>>
  /\ invoices = <<>>
  /\ invoiceItems = <<>>
  /\ nextId = [companies |-> Len(SeedCompanies) + 1, users |-> Len(SeedUsers) + 1,
               products |-> 1, customers |-> 1, invoices |-> 1, items |-> 1]
  /\ authToken = [c \in Clients |-> Null]
  /\ req = NoRequest
  /\ res = NoResponse
  /\ inflight = [c \in Clients |-> Idle]

CompanyLogins ==
  { <<"browser1", [email |-> "super@admin.com", password |-> "password"]>>,
    <<"browser2", [email |-> "admin@acme.com", password |-> "password"]>>,
    <<"browser2", [email |-> "manager@acme.com", password |-> "password"]>> }

CompanyBodies == {Null, [isActive |-> TRUE]}
CompanyPatches == {[isActive |-> FALSE]}

CompanyNext ==
  \/ \E l \in CompanyLogins : Login(l[1], l[2])
  \/ \E c \in Clients : \E a \in GetAuthHeaders(c) : GetCompaniesRoute(c, a)
  \/ \E c \in Clients : \E a \in GetAuthHeaders(c), body \in CompanyBodies :
        PostCompany(c, a, body)
  \/ \E c \in Clients : \E a \in GetAuthHeaders(c), body \in CompanyPatches :
        PutCompany(c, a, "c2", body)
  \/ \E c \in Clients : \E a \in GetAuthHeaders(c) : DeleteCompanyRoute(c, a, "c2")

SpecCompany == InitCompany /\ [][CompanyNext]_vars

----------------------------------------------------------------------------
(* Dashboard: the administrators of two companies create, change and       *)
(* delete customers and invoices and read their dashboards.                *)

StatsInvoiceBodies ==
  { InvoiceOf(25, 2, 27, "paid", << Item(5, 5, 25) >>),
    InvoiceOf(10, 1, 11, "pending", << Item(2, 5, 10) >>) }

StatsInvoicePatches == {[status |-> "paid"], [status |-> "cancelled"]}

StatsCustomerPatches == {[isActive |-> FALSE]}

StatsNext ==
  \/ \E l \in TenantLogins : Login(l[1], l[2])
  \/ \E c \in Clients : \E a \in GetAuthHeaders(c), body \in CustomerBodies :
        PostCustomer(c, a, body)
  \/ \E c \in Clients : \E a \in GetAuthHeaders(c), body \in StatsCustomerPatches :
        PutCustomer(c, a, "k1", body)
  \/ \E c \in Clients : \E a \in GetAuthHeaders(c), body \in StatsInvoiceBodies :
        PostInvoice(c, a, body)
  \/ \E c \in Clients : \E a \in GetAuthHeaders(c), body \in StatsInvoicePatches :
        PutInvoice(c, a, "i1", body)
  \/ \E c \in Clients : \E a \in GetAuthHeaders(c) : DeleteInvoiceRoute(c, a, "i1")
  \/ \E c \in Clients : \E a \in GetAuthHeaders(c) : GetDashboardStatsRoute(c, a)

SpecStats == Init /\ [][StatsNext]_vars

----------------------------------------------------------------------------
(* Reports: the page over every customer and invoice list a company can    *)
(* hold, under every filter.                                               *)

CustomerNames == {"Acme", "Bolt"}

\* Two customers of the company, with any names.
CustomerLists ==
  { << [id |-> "k1", companyId |-> "c1", name |-> n1, isActive |-> TRUE],
       [id |-> "k2", companyId |-> "c1", name |-> n2, isActive |-> TRUE] >> :
      n1 \in CustomerNames, n2 \in CustomerNames }

InvoiceAt(i) ==
  { [id |-> UUIDs.invoices[i], companyId |-> "c1", customerId |-> customerId,
     subtotal |-> total, tax |-> 0, total |-> total, status |-> status] :
      customerId \in {"k1", "k2", "k9"}, total \in {10, 27}, status \in {"paid", "pending"} }

\* At most MaxInvoices invoices of the company.
InvoiceLists ==
  UNION { { f \in [1 .. n -> UNION {InvoiceAt(i) : i \in 1 .. n}] :
              \A i \in 1 .. n : f[i] \in InvoiceAt(i) } : n \in 0 .. MaxInvoices }

InitReport ==
  /\ now = 0
  /\ companies = SeedCompanies
  /\ users = SeedUsers
  /\ roles = SeedRoles
  /\ permissions = SeedPermissions
  /\ products = <<>>
  /\ customers \in CustomerLists
  /\ invoices \in InvoiceLists
  /\ invoiceItems = <<>>
  /\ nextId = [companies |-> Len(SeedCompanies) + 1, users |-> Len(SeedUsers) + 1,
               products |-> 1, customers |-> 3, invoices |-> Len(invoices) + 1, items |-> 1]
  /\ authToken = [c \in Clients |-> Null]
  /\ req = NoRequest
  /\ res = NoResponse
  /\ inflight = [c \in Clients |-> Idle]

ReportNext ==
  \E customerFilter \in {"all", "k1"}, statusFilter \in {"all", "paid"} :
    Reports(customerFilter, statusFilter)

SpecReport == InitReport /\ [][ReportNext]_vars

----------------------------------------------------------------------------
(* Concurrent requests.  A JSONStorage call is an async function: it runs  *)
(* up to an await, and while it is suspended there the event loop runs the *)
(* handlers of other requests.  One action per stretch between two awaits; *)
(* the middleware chain reads only users.json, roles.json, companies.json  *)
(* and permissions.json, which no action below writes, so it is taken with *)
(* the first stretch.  randomUUID() does not depend on what was read, so a *)
(* call's ids are drawn when it starts.                                    *)

\* The route answers the client; no call of the client's is left in flight.
Answer(c, status, message, body) ==
  /\ Respond(status, message, body)
  /\ inflight' = [inflight EXCEPT ![c] = [Idle EXCEPT !.status = status]]

\* The call is suspended at an await.
Suspend(c, route, pc, local) ==
  /\ inflight' = [inflight EXCEPT ![c] =
                    Spread(Idle, Spread(local, [pc |-> pc, route |-> route,
                                                status |-> inflight[c].status]))]
  /\ UNCHANGED res

\* POST /api/products up to createProduct's await this.writeFile(...)
PostProductRead(c, authorization, body) ==
  LET r == Request("POST /api/products", authorization, Null, body, Null)
      gate == Chain(r, "products", "canCreate", FALSE)
      productData == Spread(Strip(body, InsertProductKeys), [companyId |-> gate.user.companyId])
      id == RandomUUID("products")
      newProduct == Spread(productData, [id |-> id])
  IN /\ inflight[c].pc = "idle"
     /\ nextId.products <= MaxCalls
     /\ Received(r, gate)
     /\ IF ~gate.ok
        THEN Answer(c, gate.status, gate.message, Null) /\ UNCHANGED nextId
        ELSE IF ~ParseOk(body, InsertProductKeys)
        THEN Answer(c, 400, "Invalid product data", Null) /\ UNCHANGED nextId
        ELSE /\ Suspend(c, r.route, "writeFile",
                        [products |-> Created(products, productData, id),
                         pending |-> {"products.json"},
                         answer |-> [status |-> 201, message |-> "", body |-> newProduct]])
             /\ Bump("products", 1)
     /\ UNCHANGED <<now, store, authToken>>

\* PUT /api/products/:id up to updateProduct's await this.writeFile(...)
PutProductRead(c, authorization, id, body) ==
  LET r == Request("PUT /api/products/:id", authorization, [id |-> id], body, Null)
      gate == Chain(r, "products", "canUpdate", FALSE)
      productData == Strip(body, InsertProductKeys)
  IN /\ inflight[c].pc = "idle"
     /\ Received(r, gate)
     /\ IF ~gate.ok
        THEN Answer(c, gate.status, gate.message, Null)
        ELSE IF ~PartialOk(body, InsertProductKeys)
        THEN Answer(c, 400, "Invalid product data", Null)
        ELSE IF ~Exists(products, id)
        THEN Answer(c, 404, "Product not found", Null)
        ELSE Suspend(c, r.route, "writeFile",
                     [products |-> Updated(products, id, productData),
                      pending |-> {"products.json"},
                      answer |-> [status |-> 200, message |-> "",
                                  body |-> Spread(Find(products, WithId(products, id)),
                                                  productData)]])
     /\ UNCHANGED <<now, store, nextId, authToken>>

\* DELETE /api/products/:id up to deleteProduct's await this.writeFile(...)
DeleteProductRead(c, authorization, id) ==
  LET r == Request("DELETE /api/products/:id", authorization, [id |-> id], Null, Null)
      gate == Chain(r, "products", "canDelete", FALSE)
  IN /\ inflight[c].pc = "idle"
     /\ Received(r, gate)
     /\ IF ~gate.ok
        THEN Answer(c, gate.status, gate.message, Null)
        ELSE IF ~Exists(products, id)
        THEN Answer(c, 404, "Product not found", Null)
        ELSE Suspend(c, r.route, "writeFile",
                     [products |-> Deleted(products, id), pending |-> {"products.json"},
                      answer |-> [status |-> 204, message |-> "", body |-> Null]])
     /\ UNCHANGED <<now, store, nextId, authToken>>

\* POST /api/invoices up to createInvoice's await this.readFile('invoice_items.json')
PostInvoiceRead(c, authorization, body) ==
  LET r == Request("POST /api/invoices", authorization, Null, body, Null)
      gate == Chain(r, "invoices", "canCreate", FALSE)
      validatedInvoice ==
        Spread(Strip(body, InsertInvoiceKeys), [companyId |-> gate.user.companyId])
      validatedItems == [i \in DOMAIN body.items |-> Strip(body.items[i], InsertInvoiceItemKeys)]
      id == RandomUUID("invoices")
      n == IF Has(body, "items") THEN Len(body.items) ELSE 0
  IN /\ inflight[c].pc = "idle"
     /\ CanCreate("invoices", 0, 1)
     /\ CanCreate("items", 0, n)
     /\ Received(r, gate)
     /\ IF ~gate.ok
        THEN Answer(c, gate.status, gate.message, Null) /\ UNCHANGED nextId
        ELSE IF ~(ParseOk(body, InsertInvoiceKeys) /\ ItemsOk(body))
        THEN Answer(c, 400, "Invalid invoice data", Null) /\ UNCHANGED nextId
        ELSE /\ Suspend(c, r.route, "readFile",
                        [invoices |-> invoices,
                         args |-> [newInvoice |-> Spread(validatedInvoice, [id |-> id]),
                                   newItems |-> NewItems(validatedItems, id)]])
             /\ nextId' = [nextId EXCEPT !["invoices"] = @ + 1, !["items"] = @ + n]
     /\ UNCHANGED <<now, store, authToken>>

\* createInvoice from the second readFile up to await Promise.all([...])
CreateInvoiceReadItems(c) ==
  LET call == inflight[c]
  IN /\ call.pc = "readFile"
     /\ call.route = "POST /api/invoices"
     /\ Suspend(c, call.route, "writeFile",
                [invoices |-> Append(call.invoices, call.args.newInvoice),
                 invoiceItems |-> invoiceItems \o call.args.newItems,
                 pending |-> {"invoices.json", "invoice_items.json"},
                 answer |-> [status |-> 201, message |-> "", body |-> call.args.newInvoice]])
     /\ UNCHANGED <<now, store, nextId, authToken, req>>

\* DELETE /api/invoices/:id up to deleteInvoice's await this.readFile('invoice_items.json')
DeleteInvoiceRead(c, authorization, id) ==
  LET r == Request("DELETE /api/invoices/:id", authorization, [id |-> id], Null, Null)
      gate == Chain(r, "invoices", "canDelete", FALSE)
  IN /\ inflight[c].pc = "idle"
     /\ Received(r, gate)
     /\ IF ~gate.ok
        THEN Answer(c, gate.status, gate.message, Null)
        ELSE Suspend(c, r.route, "readFile", [invoices |-> invoices, args |-> [id |-> id]])
     /\ UNCHANGED <<now, store, nextId, authToken>>

\* deleteInvoice from the second readFile up to await Promise.all([...])
DeleteInvoiceReadItems(c) ==
  LET call == inflight[c]
      OfOthers(i) == i.invoiceId # call.args.id
      filteredInvoices == Deleted(call.invoices, call.args.id)
      filteredItems == SelectSeq(invoiceItems, OfOthers)
  IN /\ call.pc = "readFile"
     /\ call.route = "DELETE /api/invoices/:id"
     /\ IF Len(filteredInvoices) = Len(call.invoices)
        THEN Answer(c, 404, "Invoice not found", Null)
        ELSE Suspend(c, call.route, "writeFile",
                     [invoices |-> filteredInvoices, invoiceItems |-> filteredItems,
                      pending |-> {"invoices.json", "invoice_items.json"},
                      answer |-> [status |-> 204, message |-> "", body |-> Null]])
     /\ UNCHANGED <<now, store, nextId, authToken, req>>

\* writeFile as an append of the call's own record to the file as it is when the
\* write lands.
WriteFileAppending(c, file) ==
  LET call == inflight[c]
  IN /\ call.pc = "writeFile"
     /\ file \in call.pending
     /\ products' = IF file = "products.json" THEN Append(products, call.answer.body)
                    ELSE products
     /\ invoices' = IF file = "invoices.json" THEN call.invoices ELSE invoices
     /\ invoiceItems' = IF file = "invoice_items.json" THEN call.invoiceItems ELSE invoiceItems
     /\ IF call.pending = {file}
        THEN Answer(c, call.answer.status, call.answer.message, call.answer.body)
        ELSE /\ inflight' = [inflight EXCEPT ![c].pending = @ \ {file}]
             /\ UNCHANGED res
     /\ UNCHANGED <<now, companies, users, roles, permissions, customers, nextId, authToken, req>>

\* One fs.writeFile of the call lands: the file becomes the call's local array.
\* The writes of a Promise.all land in either order; when the last has landed
\* the call returns and the route answers.
WriteFile(c, file) ==
  LET call == inflight[c]
  IN /\ call.pc = "writeFile"
     /\ file \in call.pending
     /\ products' = IF file = "products.json" THEN call.products ELSE products
     /\ invoices' = IF file = "invoices.json" THEN call.invoices ELSE invoices
     /\ invoiceItems' = IF file = "invoice_items.json" THEN call.invoiceItems ELSE invoiceItems
     /\ IF call.pending = {file}
        THEN Answer(c, call.answer.status, call.answer.message, call.answer.body)
        ELSE /\ inflight' = [inflight EXCEPT ![c].pending = @ \ {file}]
             /\ UNCHANGED res
     /\ UNCHANGED <<now, companies, users, roles, permissions, customers, nextId, authToken, req>>

RaceProductBodies == {[companyId |-> "c1", name |-> "widget"]}

RaceInvoiceBodies == {InvoiceOf(25, 2, 27, "paid", << Item(5, 5, 25) >>)}

Files == {"products.json", "invoices.json", "invoice_items.json"}

RaceNext ==
  \/ \E c \in Clients : Login(c, [email |-> "admin@acme.com", password |-> "password"])
  \/ \E c \in Clients : \E a \in GetAuthHeaders(c), body \in RaceProductBodies :
        PostProductRead(c, a, body)
  \/ \E c \in Clients : \E a \in GetAuthHeaders(c), body \in ProductPatches :
        PutProductRead(c, a, "p1", body)
  \/ \E c \in Clients : \E a \in GetAuthHeaders(c) : DeleteProductRead(c, a, "p1")
  \/ \E c \in Clients, file \in Files : WriteFile(c, file)

SpecRace == Init /\ [][RaceNext]_vars

InvoiceRaceNext ==
  \/ \E c \in Clients : Login(c, [email |-> "admin@acme.com", password |-> "password"])
  \/ \E c \in Clients : \E a \in GetAuthHeaders(c), body \in RaceInvoiceBodies :
        PostInvoiceRead(c, a, body)
  \/ \E c \in Clients : CreateInvoiceReadItems(c)
  \/ \E c \in Clients : \E a \in GetAuthHeaders(c), id \in {"i1", "i2"} :
        DeleteInvoiceRead(c, a, id)
  \/ \E c \in Clients : DeleteInvoiceReadItems(c)
  \/ \E c \in Clients, file \in Files : WriteFile(c, file)

SpecInvoiceRace == Init /\ [][InvoiceRaceNext]_vars

----------------------------------------------------------------------------
(* Accounts: a Company Admin and the Super Admin manage users.             *)

AccountLogins ==
  { [email |-> "admin@acme.com", password |-> "password"],
    [email |-> "super@admin.com", password |-> "password"] }

\* New users with any role, under a fresh email or one already stored.
AccountBodies ==
  { [companyId |-> "c1", roleId |-> roleId, email |-> email, password |-> "hunter2",
     isActive |-> TRUE] :
      roleId \in {"r1", "r2", "r4"}, email \in {"clerk@acme.com", "admin@acme.com"} }

AccountPatches ==
  { [email |-> "admin@acme.com"], [roleId |-> "r1"], [roleId |-> "r2"],
    [password |-> "hunter2"] }

AccountsNext ==
  \/ \E c \in Clients, body \in AccountLogins : Login(c, body)
  \/ \E c \in Clients : \E a \in GetAuthHeaders(c) : Me(c, a)
  \/ \E c \in Clients : \E a \in GetAuthHeaders(c) : GetUsersRoute(c, a, Null)
  \/ \E c \in Clients : \E a \in GetAuthHeaders(c), body \in AccountBodies :
        PostUser(c, a, body, Null)
  \/ \E c \in Clients : \E a \in GetAuthHeaders(c), body \in AccountPatches :
        PutUser(c, a, "u3", body, Null)

SpecAccounts == Init /\ [][AccountsNext]_vars

----------------------------------------------------------------------------
(* Ownership: records are created and then changed with bodies that carry  *)
(* a companyId.                                                            *)

OwnerPatches == {[companyId |-> "c2"], [companyId |-> "c1"]}

OwnerNext ==
  \/ \E l \in TenantLogins : Login(l[1], l[2])
  \/ \E c \in Clients : \E a \in GetAuthHeaders(c), body \in ProductBodies :
        PostProduct(c, a, body)
  \/ \E c \in Clients : \E a \in GetAuthHeaders(c), body \in ProductPatches \cup OwnerPatches :
        PutProduct(c, a, "p1", body)
  \/ \E c \in Clients : \E a \in GetAuthHeaders(c), body \in CustomerBodies :
        PostCustomer(c, a, body)
  \/ \E c \in Clients : \E a \in GetAuthHeaders(c), body \in CustomerPatches \cup OwnerPatches :
        PutCustomer(c, a, "k1", body)
  \/ \E c \in Clients : \E a \in GetAuthHeaders(c), body \in InvoiceBodies :
        PostInvoice(c, a, body)
  \/ \E c \in Clients : \E a \in GetAuthHeaders(c), body \in InvoicePatches \cup OwnerPatches :
        PutInvoice(c, a, "i1", body)

SpecOwner == Init /\ [][OwnerNext]_vars

----------------------------------------------------------------------------
(* The gate: every route asked with every kind of Authorization header, by *)
(* a Company Admin and a Manager, while tokens expire and the Manager's    *)
(* account is deleted.                                                     *)

GateLogins ==
  { <<"browser1", [email |-> "admin@acme.com", password |-> "password"]>>,
    <<"browser2", [email |-> "manager@acme.com", password |-> "password"]>> }

GateNext ==
  \/ Tick
  \/ \E l \in GateLogins : Login(l[1], l[2])
  \/ \E c \in Clients : \E a \in Authorizations(c) : Me(c, a)
  \/ \E c \in Clients : \E a \in Authorizations(c) : GetDashboardStatsRoute(c, a)
  \/ \E c \in Clients : \E a \in Authorizations(c) : GetUsersRoute(c, a, Null)
  \/ \E c \in Clients : \E a \in Authorizations(c) : DeleteUserRoute(c, a, "u3", Null)
  \/ \E c \in Clients : \E a \in Authorizations(c) : DeleteCompanyRoute(c, a, "c2")
  \/ \E c \in Clients : \E a \in Authorizations(c), body \in ProductBodies :
        PostProduct(c, a, body)
  \/ \E c \in Clients : \E a \in Authorizations(c) : DeleteProductRoute(c, a, "p1")
  \/ \E c \in Clients : \E a \in Authorizations(c), body \in InvoicePatches :
        PutInvoice(c, a, "i1", body)
  \/ \E c \in Clients : \E a \in Authorizations(c), body \in CustomerBodies :
        PostCustomer(c, a, body)

SpecGate == Init /\ [][GateNext]_vars

----------------------------------------------------------------------------
(* What the claims speak of *)

LoginRoute == "POST /api/auth/login"

\* The module and action each gated route asks requirePermission for.
RoutePermission ==
  ("GET /api/users" :> <<"users", "canRead">>) @@
  ("POST /api/users" :> <<"users", "canCreate">>) @@
  ("PUT /api/users/:id" :> <<"users", "canUpdate">>) @@
  ("DELETE /api/users/:id" :> <<"users", "canDelete">>) @@
  ("DELETE /api/companies/:id" :> <<"companies", "canDelete">>) @@
  ("GET /api/companies" :> <<"companies", "canRead">>) @@
  ("POST /api/companies" :> <<"companies", "canCreate">>) @@
  ("PUT /api/companies/:id" :> <<"companies", "canUpdate">>) @@
  ("GET /api/products" :> <<"products", "canRead">>) @@
  ("POST /api/products" :> <<"products", "canCreate">>) @@
  ("PUT /api/products/:id" :> <<"products", "canUpdate">>) @@
  ("DELETE /api/products/:id" :> <<"products", "canDelete">>) @@
  ("GET /api/customers" :> <<"customers", "canRead">>) @@
  ("POST /api/customers" :> <<"customers", "canCreate">>) @@
  ("PUT /api/customers/:id" :> <<"customers", "canUpdate">>) @@
  ("DELETE /api/customers/:id" :> <<"customers", "canDelete">>) @@
  ("GET /api/invoices" :> <<"invoices", "canRead">>) @@
  ("GET /api/invoices/:id" :> <<"invoices", "canRead">>) @@
  ("POST /api/invoices" :> <<"invoices", "canCreate">>) @@
  ("PUT /api/invoices/:id" :> <<"invoices", "canUpdate">>) @@
  ("DELETE /api/invoices/:id" :> <<"invoices", "canDelete">>) @@
  ("GET /api/invoices/:id/pdf" :> <<"invoices", "canRead">>)

\* The request was made to a route behind authMiddleware.
Authenticated(r) == r.route \notin {"", LoginRoute}

\* The bearer token a request carried, Null if none.
Carried(r) ==
  IF r.authorization = Null \/ r.authorization.scheme # "Bearer" THEN Null
  ELSE r.authorization.token

\* The token's signature is the server's and it has not expired.
SignedAndFresh(t) == t # Null /\ t.sig = JWT_SECRET /\ now < t.exp

\* users.json holds the user, roles.json its role and companies.json its company.
UserIsStored(id) ==
  \E i \in DOMAIN users :
    /\ users[i].id = id
    /\ \E j \in DOMAIN roles : roles[j].id = users[i].roleId
    /\ \E j \in DOMAIN companies : companies[j].id = users[i].companyId

StoredRoleId(id) ==
  LET i == CHOOSE i \in DOMAIN users : users[i].id = id IN users[i].roleId

\* permissions.json grants the role the action on the module.
RolePermits(roleId, module, action) ==
  \E i \in DOMAIN permissions :
    /\ permissions[i].roleId = roleId
    /\ permissions[i].module = module
    /\ permissions[i][action]

\* A step that handles a request (every step but the clock's).
Handled == now' = now

----------------------------------------------------------------------------
(* C9 *)

\* C9 (as claimed): whether authMiddleware accepts a bearer token depends only
\* on the token's signature and expiry: a request is answered 401 only when
\* its token is missing, badly signed or expired, whatever happened to the
\* store since the token was issued.
C9_AcceptanceDependsOnlyOnToken ==
  (Authenticated(req) /\ res.status = 401) => ~SignedAndFresh(Carried(req))

\* C9 (amended): a request is answered 401 by authMiddleware exactly when its
\* token is missing, badly signed or expired, or the store, as the request
\* finds it, does not hold the token's user together with that user's role
\* and company.  So a token accepted once is accepted on every later request
\* before its expiry for as long as that user, role and company stay stored,
\* whatever else was updated (roleId, isActive, other users), and is refused
\* once the user or its company is deleted.
C9_AcceptedWhileUserStored ==
  [][ (Handled /\ Authenticated(req')) =>
        LET t == Carried(req') IN
        (res'.status = 401) <=> ~(SignedAndFresh(t) /\ UserIsStored(t.userId))
    ]_vars

\* A token is accepted although its user's role was changed after issuance.
C9_Witness ==
  /\ req.route = "GET /api/auth/me"
  /\ res.status = 200
  /\ req.user.roleId # Carried(req).roleId

----------------------------------------------------------------------------
(* C10 *)

\* C10 (as claimed): a request that passed authMiddleware is refused by
\* requirePermission exactly when the role encoded in its token at issuance
\* lacks the route's permission.
C10_PermissionsAsOfIssuance ==
  (req.user # Null /\ req.route \in DOMAIN RoutePermission) =>
    LET m == RoutePermission[req.route] IN
    (res.message = "Insufficient permissions")
      <=> ~RolePermits(Carried(req).roleId, m[1], m[2])

\* C10 (amended): permission checks use the roleId stored for the user when the
\* request is handled: after a user's roleId is changed in the store, requests
\* bearing the token issued before the change are authorized according to the
\* new role, not the role encoded in the token.
C10_PermissionsOfStoredRole ==
  [][ (Handled /\ req'.user # Null /\ req'.route \in DOMAIN RoutePermission) =>
        LET m == RoutePermission[req'.route] IN
        (res'.message = "Insufficient permissions")
          <=> ~RolePermits(StoredRoleId(Carried(req').userId), m[1], m[2])
    ]_vars

\* A demoted user's token, issued while the role could list users, is refused.
C10_Witness ==
  /\ req.route = "GET /api/users"
  /\ res.message = "Insufficient permissions"
  /\ RolePermits(Carried(req).roleId, "users", "canRead")

----------------------------------------------------------------------------
(* C7 *)

InvalidCredentials == [status |-> 401, message |-> "Invalid credentials", body |-> Null]
AccountInactive == [status |-> 401, message |-> "Account is inactive", body |-> Null]

\* A login request that passed loginSchema.
LoginAttempt == req.route = LoginRoute /\ LoginSchemaOk(req.body)

WithEmail(email) == {i \in DOMAIN users : users[i].email = email}

NoSuchEmail(email) == WithEmail(email) = {}

\* The email is some user's, and the password is no such user's.
WrongPassword(email, password) ==
  /\ WithEmail(email) # {}
  /\ \A i \in WithEmail(email) : users[i].password # HashPassword(password)

\* C7: a login with an email that matches no user and a login with an existing
\* email but a wrong password are answered alike, status 401 and message
\* 'Invalid credentials' and nothing else, for every users.json.
C7_InvalidCredentialsAlike ==
  (LoginAttempt /\ (NoSuchEmail(req.body.email)
                      \/ WrongPassword(req.body.email, req.body.password)))
    => res = InvalidCredentials

\* Both cases have been answered: here the wrong password for a stored email.
C7_Witness ==
  /\ LoginAttempt
  /\ WrongPassword(req.body.email, req.body.password)
  /\ res = InvalidCredentials

----------------------------------------------------------------------------
(* C8 *)

\* The user getUserByEmail finds: the first with that email.
TheUser(email) == users[Min(WithEmail(email))]

RightPassword(email, password) ==
  WithEmail(email) # {} /\ TheUser(email).password = HashPassword(password)

Inactive(email) == WithEmail(email) # {} /\ ~TheUser(email).isActive

\* C8 (as claimed): a login with the correct password for a user whose isActive
\* is false is answered 'Account is inactive' and issues no token; that answer
\* is given only after the password was verified, an inactive user with a
\* wrong password getting 'Invalid credentials'.
C8_InactiveAfterPassword ==
  LoginAttempt =>
    LET email == req.body.email
        password == req.body.password
    IN /\ (Inactive(email) /\ RightPassword(email, password)) => res = AccountInactive
       /\ (Inactive(email) /\ ~RightPassword(email, password)) => res = InvalidCredentials
       /\ res.message = "Account is inactive"
            => (Inactive(email) /\ RightPassword(email, password))

\* C8 (amended): a login with the correct password for a user whose isActive is
\* false and whose role and company are still stored is answered 'Account is
\* inactive' and issues no token (an inactive user whose company was deleted
\* gets 'Invalid credentials'); that answer is given only after the password
\* was verified, an inactive user with a wrong password getting 'Invalid
\* credentials'.
C8_InactiveAfterPasswordWhenLoadable ==
  LoginAttempt =>
    LET email == req.body.email
        password == req.body.password
    IN /\ (Inactive(email) /\ RightPassword(email, password)
             /\ UserIsStored(TheUser(email).id)) => res = AccountInactive
       /\ (Inactive(email) /\ RightPassword(email, password)
             /\ ~UserIsStored(TheUser(email).id)) => res = InvalidCredentials
       /\ (Inactive(email) /\ ~RightPassword(email, password)) => res = InvalidCredentials
       /\ res.message = "Account is inactive"
            => (Inactive(email) /\ RightPassword(email, password))

\* An inactive user gave the right password and was told the account is inactive.
C8_Witness ==
  /\ LoginAttempt
  /\ Inactive(req.body.email)
  /\ RightPassword(req.body.email, req.body.password)
  /\ res = AccountInactive

----------------------------------------------------------------------------
(* C4 *)

\* The request passed authMiddleware as a user who is no Super Admin.
TenantCaller(r) == r.user # Null /\ r.user.role.name # "Super Admin"

SuperAdminCaller(r) == r.user # Null /\ r.user.role.name = "Super Admin"

\* C4: on PUT /api/users/:id and DELETE /api/users/:id, a caller of company A
\* who is no Super Admin never modifies or deletes a user whose stored
\* companyId is B # A: the request is answered 403 and users.json is left as
\* it was, whatever the body contains.
C4_ForeignUsersProtected ==
  [][ (/\ Handled
       /\ req'.route \in {"PUT /api/users/:id", "DELETE /api/users/:id"}
       /\ TenantCaller(req')
       /\ Exists(users, req'.params.id)
       /\ GetUser(req'.params.id).companyId # req'.user.companyId)
      => (res'.status = 403 /\ users' = users)
    ]_vars

----------------------------------------------------------------------------
(* C5 *)

ScopedRoutes ==
  {"GET /api/users", "POST /api/users", "PUT /api/users/:id", "DELETE /api/users/:id"}

\* The request reached requireCompanyScope as a user who is no Super Admin.
ReachedScopeCheck ==
  /\ req.route \in ScopedRoutes
  /\ TenantCaller(req)
  /\ res.message # "Insufficient permissions"

ScopeDenied == res.status = 403 /\ res.message = "Access denied to company data"

\* The place carries a companyId that is not the caller's.
CarriesForeign(place) == Has(place, "companyId") /\ place.companyId # req.user.companyId

\* The place carries a companyId, the empty string counting as none.
Names(place) == Has(place, "companyId") /\ place.companyId # ""

\* C5 (as claimed): for a caller who is no Super Admin, requireCompanyScope
\* rejects with 403 exactly when the path params, the body or the query string
\* carries a companyId different from the caller's, whatever the other two
\* contain.
C5_AnyForeignCompanyIdRejected ==
  ReachedScopeCheck =>
    (ScopeDenied <=> (CarriesForeign(req.params) \/ CarriesForeign(req.body)
                        \/ CarriesForeign(req.query)))

\* C5 (amended): for a caller who is no Super Admin, requireCompanyScope looks
\* at one companyId only, the first non-empty one among the path params, the
\* body and the query string, in that order: it rejects with 403 exactly when
\* that one differs from the caller's, and passes when there is none or it
\* equals the caller's, whatever the places after it contain.
C5_FirstCompanyIdDecides ==
  ReachedScopeCheck =>
    (ScopeDenied <=>
       \/ CarriesForeign(req.params) /\ Names(req.params)
       \/ ~Names(req.params) /\ CarriesForeign(req.body) /\ Names(req.body)
       \/ ~Names(req.params) /\ ~Names(req.body)
            /\ CarriesForeign(req.query) /\ Names(req.query))

\* The body names the caller's company, the query string another one, and the
\* request went through.
C5_Witness ==
  /\ ReachedScopeCheck
  /\ Names(req.body) /\ ~CarriesForeign(req.body)
  /\ Names(req.query) /\ CarriesForeign(req.query)
  /\ res.status = 200

----------------------------------------------------------------------------
(* C6 *)

\* C6: a request by a Super Admin is never rejected for tenant-scope reasons,
\* whatever companyId it carries and whatever company its target belongs to:
\* requireCompanyScope passes and the handler answers; GET /api/users then
\* returns the users of all companies and POST /api/users stores the user
\* under the companyId supplied in the body.
C6_SuperAdminBypass ==
  (req.route \in ScopedRoutes /\ SuperAdminCaller(req)) =>
    /\ res.status \notin {401, 403}
    /\ req.route = "GET /api/users" => res.body = users
    /\ (req.route = "POST /api/users" /\ res.status = 201) =>
         /\ res.body.companyId = req.body.companyId
         /\ GetUser(res.body.id).companyId = req.body.companyId
    /\ (req.route = "POST /api/users" /\ ParseOk(req.body, InsertUserKeys)) =>
         res.status = 201

\* A Super Admin of company c1 created a user in company c2.
C6_Witness ==
  /\ req.route = "POST /api/users"
  /\ SuperAdminCaller(req)
  /\ req.user.companyId = "c1"
  /\ res.status = 201
  /\ res.body.companyId = "c2"

----------------------------------------------------------------------------
(* C1 *)

\* The collection a mutating route of a tenant-scoped module writes.
MutatedCollection ==
  ("PUT /api/products/:id" :> products) @@ ("DELETE /api/products/:id" :> products) @@
  ("PUT /api/customers/:id" :> customers) @@ ("DELETE /api/customers/:id" :> customers) @@
  ("PUT /api/invoices/:id" :> invoices) @@ ("DELETE /api/invoices/:id" :> invoices)

\* C1: on PUT and DELETE /:id of products, customers and invoices, a request by
\* an authenticated user of company A who is no Super Admin, targeting a record
\* stored with companyId B # A, is answered 403 and leaves the record as it
\* was, even when the user's role may update and delete in the module.
C1_ForeignRecordsProtected ==
  [][ (/\ Handled
       /\ req'.route \in DOMAIN MutatedCollection
       /\ TenantCaller(req')
       /\ Exists(MutatedCollection[req'.route], req'.params.id)
       /\ Find(MutatedCollection[req'.route],
               WithId(MutatedCollection[req'.route], req'.params.id)).companyId
            # req'.user.companyId)
      => /\ res'.status = 403
         /\ products' = products /\ customers' = customers /\ invoices' = invoices
    ]_vars

----------------------------------------------------------------------------
(* C2 *)

ListRoutes == {"GET /api/products", "GET /api/customers", "GET /api/invoices"}

\* C2: no response to an authenticated user who is no Super Admin contains a
\* product, customer, invoice or invoice item of another company than the
\* user's: not on the list routes, not on GET /api/invoices/:id, not in the
\* PDF of GET /api/invoices/:id/pdf.
C2_NoForeignRecordServed ==
  (TenantCaller(req) /\ res.status = 200) =>
    /\ req.route \in ListRoutes =>
         \A i \in DOMAIN res.body : res.body[i].companyId = req.user.companyId
    /\ req.route = "GET /api/invoices/:id" =>
         /\ res.body.companyId = req.user.companyId
         /\ res.body.customer.companyId = req.user.companyId
         /\ \A i \in DOMAIN res.body.items :
              res.body.items[i].product # Null =>
                res.body.items[i].product.companyId = req.user.companyId
    /\ req.route = "GET /api/invoices/:id/pdf" =>
         /\ res.body.company.id = req.user.companyId
         /\ res.body.customer.companyId = req.user.companyId

----------------------------------------------------------------------------
(* C3 *)

\* The rows permissions.json holds for the role and the module.
RowsFor(roleId, module) ==
  {i \in DOMAIN permissions :
     permissions[i].roleId = roleId /\ permissions[i].module = module}

InsufficientPermissions(r) == r.status = 403 /\ r.message = "Insufficient permissions"

\* C3: the permission check is default-deny.  When the role of the user has no
\* Permission row for the route's module, requirePermission answers 403 and
\* the handler never runs (the data files are left as they were); otherwise
\* the request gets past requirePermission exactly when the row's flag for the
\* route's action is true.
C3_DefaultDeny ==
  [][ (Handled /\ req'.user # Null /\ req'.route \in DOMAIN RoutePermission) =>
        LET m == RoutePermission[req'.route]
            rows == RowsFor(req'.user.roleId, m[1])
        IN IF rows = {}
           THEN InsufficientPermissions(res') /\ store' = store
           ELSE InsufficientPermissions(res') <=> ~permissions[Min(rows)][m[2]]
    ]_vars

\* A Company Admin whose role has no row for products asked to create one and
\* got 403; nothing was stored.
C3_Witness ==
  /\ req.route = "POST /api/products"
  /\ req.user # Null
  /\ RowsFor(req.user.roleId, "products") = {}
  /\ InsufficientPermissions(res)
  /\ products = <<>>

----------------------------------------------------------------------------
(* C11 *)

----------------------------------------------------------------------------
(* C12 *)

RECURSIVE SumTotals(_)
\* The sum of the items' total.
SumTotals(items) ==
  IF items = <<>> THEN 0 ELSE Head(items).total + SumTotals(Tail(items))

\* The stored items of the invoice.
ItemsOf(id) == LET P(i) == i.invoiceId = id IN SelectSeq(invoiceItems, P)

\* C12: every stored invoice has subtotal = the sum of its items' total,
\* tax = 8% of subtotal and total = subtotal + tax, whatever bodies the
\* POST /api/invoices and PUT /api/invoices/:id requests carried.
C12_TotalsDerivedFromItems ==
  \A i \in DOMAIN invoices :
    /\ invoices[i].subtotal = SumTotals(ItemsOf(invoices[i].id))
    /\ invoices[i].tax * 100 = invoices[i].subtotal * 8
    /\ invoices[i].total = invoices[i].subtotal + invoices[i].tax

----------------------------------------------------------------------------
(* C13 *)

\* C13: every stored invoice item has total = quantity x unitPrice, whatever
\* total the POST /api/invoices request carried for it.
C13_ItemTotalIsQuantityTimesPrice ==
  \A i \in DOMAIN invoiceItems :
    invoiceItems[i].total = invoiceItems[i].quantity * invoiceItems[i].unitPrice

----------------------------------------------------------------------------
(* C14 *)

\* C14: a POST /api/invoices with zero line items is rejected and persists
\* nothing: invoices.json and invoice_items.json are left as they were.
C14_EmptyInvoiceRejected ==
  [][ (/\ Handled
       /\ req'.route = "POST /api/invoices"
       /\ req'.user # Null
       /\ Has(req'.body, "items")
       /\ req'.body.items = <<>>)
      => (res'.status >= 400 /\ invoices' = invoices /\ invoiceItems' = invoiceItems)
    ]_vars

----------------------------------------------------------------------------
(* C15 *)

\* C15: an invoice stored by POST /api/invoices has status 'pending' right
\* after its creation, whatever status the request body carried.
C15_CreatedPending ==
  (req.route = "POST /api/invoices" /\ res.status = 201) =>
    /\ res.body.status = "pending"
    /\ Find(invoices, WithId(invoices, res.body.id)).status = "pending"

----------------------------------------------------------------------------
(* C16 *)

\* C16: POST /api/invoices persists no line item whose quantity is not a
\* positive integer or whose unitPrice is negative: every stored invoice item
\* has quantity >= 1 and unitPrice >= 0.
C16_QuantityAndPriceValidated ==
  \A i \in DOMAIN invoiceItems :
    invoiceItems[i].quantity >= 1 /\ invoiceItems[i].unitPrice >= 0

----------------------------------------------------------------------------
(* C17 *)

\* The items stored for any invoice but the one named.
ItemsOfOthers(items, id) == LET P(i) == i.invoiceId # id IN SelectSeq(items, P)

\* The invoices stored besides the one named.
OtherInvoices(list, id) == LET P(i) == i.id # id IN SelectSeq(list, P)

\* C17: deleteInvoice(id) on a stored invoice removes that invoice and every
\* item whose invoiceId is id and leaves the other invoices and the items of
\* other invoices as they were; when no invoice has that id it returns false
\* (the route answers 404) and writes nothing.
C17_DeleteInvoiceFrame ==
  [][ (/\ Handled
       /\ req'.route = "DELETE /api/invoices/:id"
       /\ req'.user # Null
       /\ ~InsufficientPermissions(res'))
      => IF \E i \in DOMAIN invoices : invoices[i].id = req'.params.id
         THEN /\ res'.status = 204
              /\ \A i \in DOMAIN invoices' : invoices'[i].id # req'.params.id
              /\ \A i \in DOMAIN invoiceItems' : invoiceItems'[i].invoiceId # req'.params.id
              /\ invoices' = OtherInvoices(invoices, req'.params.id)
              /\ invoiceItems' = ItemsOfOthers(invoiceItems, req'.params.id)
              /\ UNCHANGED <<companies, users, roles, permissions, products, customers>>
         ELSE res'.status = 404 /\ UNCHANGED store
    ]_vars

\* An invoice with an item was deleted while another invoice with an item was
\* stored, and that one is still there.
C17_Witness ==
  /\ req.route = "DELETE /api/invoices/:id"
  /\ res.status = 204
  /\ invoices # <<>>
  /\ Len(invoiceItems) = 1
  /\ nextId.items = 3

----------------------------------------------------------------------------
(* C18 *)

\* C18: GET /api/invoices/:id and GET /api/invoices/:id/pdf answer 404 if and
\* only if invoices.json holds no invoice with that id; a stored invoice is
\* never reported as not found, whatever happened to its customer or company.
C18_NotFoundIffAbsent ==
  (/\ req.route \in {"GET /api/invoices/:id", "GET /api/invoices/:id/pdf"}
   /\ req.user # Null
   /\ ~InsufficientPermissions(res))
  => (res.status = 404 <=> ~Exists(invoices, req.params.id))

----------------------------------------------------------------------------
(* C19 *)

\* The token is good and permissions.json grants the stored role of its user
\* the route's action: the request is authenticated and permitted.
Permitted(r) ==
  /\ SignedAndFresh(Carried(r))
  /\ UserIsStored(Carried(r).userId)
  /\ RolePermits(StoredRoleId(Carried(r).userId),
                 RoutePermission[r.route][1], RoutePermission[r.route][2])

\* Handling the permitted request came to read the unreadable file, or to
\* write while no file can be written.
FaultHit(r) ==
  LET reachesStorage ==
        CASE r.route = "POST /api/products" -> ParseOk(r.body, InsertProductKeys)
          [] r.route = "PUT /api/products/:id" -> PartialOk(r.body, InsertProductKeys)
          [] OTHER -> TRUE
      writes ==
        CASE r.route = "POST /api/products" -> TRUE
          [] r.route = "GET /api/products" -> FALSE
          [] OTHER -> Exists(products, r.params.id)
  IN \/ r.fault.unreadable \cap {"users.json", "permissions.json"} # {}
     \/ "products.json" \in r.fault.unreadable /\ reachesStorage
     \/ r.fault.unwritable /\ reachesStorage /\ writes

\* C19: when a read or a write of a data file fails while an authenticated,
\* permitted request is handled, the request is answered 500, on every route,
\* POST and PUT included: never 400, never 401, never a success built from
\* the data that could not be read.
C19_IoFailureAnswered500 ==
  [][ (Handled /\ Has(req', "fault") /\ Permitted(req') /\ FaultHit(req'))
      => res'.status = 500
    ]_vars

----------------------------------------------------------------------------
(* C20 *)

CompanyRoutes ==
  {"GET /api/companies", "POST /api/companies", "PUT /api/companies/:id",
   "DELETE /api/companies/:id"}

----------------------------------------------------------------------------
(* C21 *)

RECURSIVE SumOver(_, _, _)
\* The sum of arr[i][field] over the indices in idx.
SumOver(arr, idx, field) ==
  IF idx = {} THEN 0
  ELSE LET i == CHOOSE i \in idx : TRUE
       IN arr[i][field] + SumOver(arr, idx \ {i}, field)

\* The company's invoices with the status, by index.
InvoicesWith(companyId, status) ==
  {i \in DOMAIN invoices : invoices[i].companyId = companyId /\ invoices[i].status = status}

\* The items of the company's paid invoices, by index.
PaidItems(companyId) ==
  {x \in DOMAIN invoiceItems :
     \E i \in InvoicesWith(companyId, "paid") : invoices[i].id = invoiceItems[x].invoiceId}

\* The records getDashboardStats(companyId) may depend on.
RecordsOf(invoiceFile, customerFile, itemFile, companyId) ==
  LET ofCompany == OfCompany(invoiceFile, companyId)
      Theirs(item) == \E i \in DOMAIN ofCompany : ofCompany[i].id = item.invoiceId
  IN <<ofCompany, OfCompany(customerFile, companyId), SelectSeq(itemFile, Theirs)>>

\* C21: the dashboard of a company is a function of that company's records:
\* totalRevenue is the sum of total over its paid invoices, pendingInvoices
\* the number of its pending invoices, activeCustomers the number of its
\* active customers, productsSold the sum of quantity over the items of its
\* paid invoices; a step that leaves the company's records as they were,
\* whatever it does to other companies' records, leaves the result as it was.
C21_DashboardOfOwnRecords ==
  [][ /\ (Handled /\ req'.route = "GET /api/dashboard/stats" /\ res'.status = 200) =>
           LET co == req'.user.companyId IN
           /\ res'.body.totalRevenue = SumOver(invoices, InvoicesWith(co, "paid"), "total")
           /\ res'.body.pendingInvoices = Cardinality(InvoicesWith(co, "pending"))
           /\ res'.body.activeCustomers =
                Cardinality({k \in DOMAIN customers :
                               customers[k].companyId = co /\ customers[k].isActive})
           /\ res'.body.productsSold = SumOver(invoiceItems, PaidItems(co), "quantity")
      /\ \A co \in {"c1", "c2"} :
           RecordsOf(invoices', customers', invoiceItems', co)
             = RecordsOf(invoices, customers, invoiceItems, co)
           => DashboardStats(invoices', customers', invoiceItems', co)
                = DashboardStats(invoices, customers, invoiceItems, co)
    ]_vars

\* Both companies hold a paid invoice, and company c1's administrator read a
\* dashboard that counts its own only.
C21_Witness ==
  /\ req.route = "GET /api/dashboard/stats"
  /\ res.status = 200
  /\ req.user.companyId = "c1"
  /\ InvoicesWith("c1", "paid") # {}
  /\ InvoicesWith("c2", "paid") # {}
  /\ res.body.totalRevenue = 27
  /\ res.body.productsSold = 5

----------------------------------------------------------------------------
(* C22 *)

\* The filtered invoices of the customer, by index.
FilteredOf(customerId) ==
  {i \in DOMAIN invoices :
     /\ invoices[i].customerId = customerId
     /\ req.query.customerFilter \in {"all", invoices[i].customerId}
     /\ req.query.statusFilter \in {"all", invoices[i].status}}

\* C22: the sales report has, for every customer with at least one filtered
\* invoice, exactly one row, whose invoiceCount, totalRevenue and paidRevenue
\* are the count, the sum of total and the sum of total over status 'paid' of
\* exactly the filtered invoices of that customer; invoices of two customers
\* are never merged into one row.
C22_OneRowPerCustomer ==
  req.route = "Reports" =>
    \A k \in DOMAIN customers :
      FilteredOf(customers[k].id) # {} =>
        LET mine == FilteredOf(customers[k].id)
            rows == {n \in DOMAIN res.body : res.body[n].customerName = customers[k].name}
        IN /\ Cardinality(rows) = 1
           /\ \A n \in rows :
                /\ res.body[n].invoiceCount = Cardinality(mine)
                /\ res.body[n].totalRevenue = SumOver(invoices, mine, "total")
                /\ res.body[n].paidRevenue =
                     SumOver(invoices, {i \in mine : invoices[i].status = "paid"}, "total")

----------------------------------------------------------------------------
(* C23 *)

\* The client's createProduct returns in this step.
CreateProductReturns(c) ==
  /\ inflight[c].pc = "writeFile"
  /\ inflight[c].route = "POST /api/products"
  /\ inflight'[c].pc = "idle"

\* The products stored since the call read products.json.
StoredSinceRead(c) ==
  {i \in DOMAIN products : ~Exists(inflight[c].products, products[i].id)}

\* C23: two requests that read-modify-write the same collection can interleave
\* so that both are answered with success while only the later writer's change
\* is stored.  A createProduct that returns is answered 201 and leaves
\* products.json holding what it read plus its own product: every product
\* another request stored since that read, itself answered 201, is lost.
C23_LostUpdate ==
  [][\A c \in Clients :
       CreateProductReturns(c) =>
         /\ res'.status = 201
         /\ Exists(products', res'.body.id)
         /\ \A i \in StoredSinceRead(c) : ~Exists(products', products[i].id)]_vars

\* Both browsers' creates were answered 201, two ids were drawn, and one product
\* is stored.
C23_Witness ==
  /\ \A c \in Clients : inflight[c].pc = "idle" /\ inflight[c].status = 201
  /\ nextId.products = 3
  /\ Len(products) = 1

----------------------------------------------------------------------------
(* C28 *)

\* C28: in every reachable state, the states between the two file writes of
\* createInvoice and deleteInvoice and the interleavings of concurrent calls
\* included, every stored invoice item's invoiceId is the id of a stored
\* invoice.
C28_NoOrphanItems ==
  \A i \in DOMAIN invoiceItems : Exists(invoices, invoiceItems[i].invoiceId)

----------------------------------------------------------------------------
(* C24 *)

\* C24: after any sequence of POST /api/users and PUT /api/users/:id requests,
\* no two stored users have the same email.
C24_EmailUnique ==
  \A i, j \in DOMAIN users : users[i].email = users[j].email => i = j

----------------------------------------------------------------------------
(* C25 *)

PrivilegedRoles == {i \in DOMAIN roles : roles[i].name \in {"Super Admin", "Company Admin"}}

\* The stored user holds the role named Super Admin or Company Admin.
Privileged(user) == \E i \in PrivilegedRoles : roles[i].id = user.roleId

\* C25: no POST /api/users or PUT /api/users/:id issued by a user who is not a
\* Super Admin results in a stored user holding the Super Admin or Company
\* Admin role, unless that user held the role before the request.
C25_NoPrivilegedUserByNonSuperAdmin ==
  [][(/\ req'.route \in {"POST /api/users", "PUT /api/users/:id"}
      /\ req'.user # Null
      /\ req'.user.role.name # "Super Admin")
     => \A i \in DOMAIN users' :
          Privileged(users'[i]) =>
            \E j \in DOMAIN users : users[j].id = users'[i].id
                                    /\ users[j].roleId = users'[i].roleId]_vars

----------------------------------------------------------------------------
(* C30 *)

\* The user objects a response body carries, by route.
UsersInBody ==
  IF res.body = Null THEN {}
  ELSE IF req.route \in {"POST /api/auth/login", "GET /api/auth/me"} THEN {res.body.user}
  ELSE IF req.route = "GET /api/users" THEN {res.body[i] : i \in DOMAIN res.body}
  ELSE IF req.route \in {"POST /api/users", "PUT /api/users/:id"} THEN {res.body}
  ELSE {}

\* C30: no response body of the login, /api/auth/me and GET, POST and PUT
\* /api/users routes carries a user's password or password hash, for any caller.
C30_NoPasswordInResponse ==
  \A user \in UsersInBody : ~Has(user, "password")

----------------------------------------------------------------------------
(* C27 *)

\* Every record of the collection after the step either was stored before with
\* the same companyId or is new and carries the caller's companyId.
CompanyIdKept(before, after) ==
  \A i \in DOMAIN after :
    IF Exists(before, after[i].id)
    THEN after[i].companyId = Find(before, WithId(before, after[i].id)).companyId
    ELSE after[i].companyId = req'.user.companyId

\* C27: the companyId of a product, customer or invoice is fixed at creation
\* to the creator's companyId, whatever the create body carries, and no PUT on
\* /api/products/:id, /api/customers/:id or /api/invoices/:id changes it.
C27_CompanyIdFixed ==
  [][/\ CompanyIdKept(products, products')
     /\ CompanyIdKept(customers, customers')
     /\ CompanyIdKept(invoices, invoices')]_vars

----------------------------------------------------------------------------
(* C29 *)

\* C29: a create only appends: after it returns, its collection holds every
\* entity it held before, unchanged, plus the new one, whatever the outcome of
\* the file read that precedes the write (a failed or unparsable read included).
C29_CreateOnlyAppends ==
  [][(req'.route = "POST /api/products" /\ res'.status = 201)
     => products' = Append(products, res'.body)]_vars

----------------------------------------------------------------------------
(* C26 *)

\* authMiddleware has no user for the request: no bearer token, a token that is
\* badly signed or expired, or no stored user, role or company behind it.
Unauthenticated(r) ==
  \/ ~SignedAndFresh(Carried(r))
  \/ ~UserIsStored(Carried(r).userId)

\* The stored role of the request's user lacks the flag the route asks for.
Unpermitted(r) ==
  /\ ~Unauthenticated(r)
  /\ r.route \in DOMAIN RoutePermission
  /\ ~RolePermits(StoredRoleId(Carried(r).userId),
                  RoutePermission[r.route][1], RoutePermission[r.route][2])

\* C26: on every route but the login, a request with a missing, malformed,
\* badly signed or expired bearer token, or with no stored user, role or
\* company behind the token, is answered 401, and a request whose role lacks
\* the route's permission flag is answered 403; either way every collection is
\* left as it was and the handler has not run.
C26_GateKeepsStore ==
  [][(Handled /\ Authenticated(req'))
     => /\ Unauthenticated(req') => (res'.status = 401 /\ store' = store /\ nextId' = nextId)
        /\ Unpermitted(req') => (res'.status = 403 /\ store' = store /\ nextId' = nextId)
    ]_vars

\* The Company Admin's token has expired; the DELETE of a stored product it was
\* sent with was answered 401 and the product is still stored.
C26_Witness ==
  /\ req.route = "DELETE /api/products/:id"
  /\ Carried(req) # Null
  /\ Carried(req).sig = JWT_SECRET
  /\ Carried(req).exp <= now
  /\ res.status = 401
  /\ Exists(products, req.params.id)

====
